---- MODULE Spec2Model ----
(***************************************************************************)
(* A model of sqbrowser: the modal navigation controller of src/src/ui.rs, *)
(* its computed-column expression engine, the data-access layer            *)
(* (database.rs, data_source.rs, file_reader.rs) and the computed-column   *)
(* store (persistence.rs).                                                 *)
(*                                                                         *)
(* Text is modelled as a sequence of one-character strings, so that the    *)
(* code's character-level work (rfind, replace, trim, push, pop) is        *)
(* computed as the code computes it.  Numbers are exact decimals           *)
(* [neg, n, d] = (-1)^neg * n / d with d a power of ten; the model's       *)
(* alphabets hold no exponent, "inf" or "nan" spellings, and the           *)
(* arithmetic of the model is exact where f64 arithmetic is exact for the  *)
(* literals used (small integers and their two-decimal quotients).         *)
(***************************************************************************)
EXTENDS Integers, Sequences, FiniteSets, TLC

-----------------------------------------------------------------------------
(* Text helpers: Rust's str methods on sequences of characters.            *)

Digits == <<"0", "1", "2", "3", "4", "5", "6", "7", "8", "9">>

IsDigit(c) == \E i \in 1..10 : Digits[i] = c

DigitVal(c) == (CHOOSE i \in 1..10 : Digits[i] = c) - 1

\* str::rfind(char): the last position of c in s (1-based), 0 when absent.
RFind(s, c) ==
  IF \E i \in 1..Len(s) : s[i] = c
    THEN CHOOSE i \in 1..Len(s) : s[i] = c /\ \A j \in (i+1)..Len(s) : s[j] # c
    ELSE 0

\* s[from..].find(char): the first position of c at or after from, 0 when absent.
FindFrom(s, c, from) ==
  IF \E i \in from..Len(s) : s[i] = c
    THEN CHOOSE i \in from..Len(s) : s[i] = c /\ \A j \in from..(i-1) : s[j] # c
    ELSE 0

Contains(s, c) == \E i \in 1..Len(s) : s[i] = c

\* pat occurs in s at position i.
MatchAt(s, pat, i) ==
  /\ i + Len(pat) - 1 <= Len(s)
  /\ \A k \in 1..Len(pat) : s[i + k - 1] = pat[k]

ContainsStr(s, pat) == \E i \in 1..(Len(s) - Len(pat) + 1) : MatchAt(s, pat, i)

RECURSIVE ReplaceFrom(_, _, _, _)
ReplaceFrom(s, pat, rep, i) ==
  IF i > Len(s) THEN <<>>
  ELSE IF MatchAt(s, pat, i)
    THEN rep \o ReplaceFrom(s, pat, rep, i + Len(pat))
    ELSE <<s[i]>> \o ReplaceFrom(s, pat, rep, i + 1)

\* str::replace(pat, rep): every non-overlapping match, left to right.
\* (Every pattern of the program is non-empty.)
Replace(s, pat, rep) == IF Len(pat) = 0 THEN s ELSE ReplaceFrom(s, pat, rep, 1)

\* expr.replace(" ", "")
RemoveSpaces(s) == SelectSeq(s, LAMBDA c : c # " ")

RECURSIVE TrimStart(_)
TrimStart(s) == IF Len(s) > 0 /\ s[1] = " " THEN TrimStart(Tail(s)) ELSE s

RECURSIVE TrimEnd(_)
TrimEnd(s) ==
  IF Len(s) > 0 /\ s[Len(s)] = " " THEN TrimEnd(SubSeq(s, 1, Len(s) - 1)) ELSE s

\* str::trim
Trim(s) == TrimEnd(TrimStart(s))

\* String::pop: drops the last character, if any.
Pop(s) == IF Len(s) = 0 THEN s ELSE SubSeq(s, 1, Len(s) - 1)

-----------------------------------------------------------------------------
(* Numbers: str::parse::<f64>, f64::to_string and the "{:.0}" / "{:.2}"    *)
(* formats.                                                                *)

RECURSIVE DigitsToNat(_)
DigitsToNat(s) ==
  IF Len(s) = 0 THEN 0 ELSE 10 * DigitsToNat(SubSeq(s, 1, Len(s) - 1)) + DigitVal(s[Len(s)])

RECURSIVE Pow10(_)
Pow10(k) == IF k = 0 THEN 1 ELSE 10 * Pow10(k - 1)

RECURSIVE NatToStr(_)
NatToStr(n) == IF n < 10 THEN <<Digits[n + 1]>> ELSE NatToStr(n \div 10) \o <<Digits[(n % 10) + 1]>>

\* An integer as a cell holds it.
IntToStr(n) == IF n < 0 THEN <<"-">> \o NatToStr(0 - n) ELSE NatToStr(n)

\* n written with exactly k digits (leading zeros).
RECURSIVE PadDigits(_, _)
PadDigits(n, k) == IF k = 0 THEN <<>> ELSE PadDigits(n \div 10, k - 1) \o <<Digits[(n % 10) + 1]>>

NoNum == [ok |-> FALSE, neg |-> FALSE, n |-> 0, d |-> 1]

\* str::parse::<f64>: an optional sign, digits with an optional point, at least one
\* digit.  (Exponents and inf/nan are outside the alphabets of this model.)
ParseF64(s) ==
  LET neg == Len(s) > 0 /\ s[1] = "-"
      Number(ip, fp) ==
        IF /\ Len(ip) + Len(fp) > 0
           /\ \A i \in 1..Len(ip) : IsDigit(ip[i])
           /\ \A i \in 1..Len(fp) : IsDigit(fp[i])
          THEN [ok |-> TRUE, neg |-> neg, n |-> DigitsToNat(ip \o fp), d |-> Pow10(Len(fp))]
          ELSE NoNum
      Parts(body, dot) ==
        Number(IF dot = 0 THEN body ELSE SubSeq(body, 1, dot - 1),
               IF dot = 0 THEN <<>> ELSE SubSeq(body, dot + 1, Len(body)))
      Unsigned(body) == Parts(body, FindFrom(body, ".", 1))
  IN  Unsigned(IF Len(s) > 0 /\ s[1] \in {"+", "-"} THEN Tail(s) ELSE s)

\* The message of the ParseFloatError that parse::<f64>() returns for s.
ParseErr(s) ==
  IF Len(s) = 0 THEN [fmt |-> "cannot parse float from empty string", arg |-> <<>>]
  ELSE [fmt |-> "invalid float literal", arg |-> <<>>]

Num(neg, n, d) == [ok |-> TRUE, neg |-> neg, n |-> n, d |-> d]

IsZero(x) == x.n = 0

\* IEEE 754 arithmetic on exact decimals, with the sign of zero.
NumMul(x, y) == Num(x.neg # y.neg, x.n * y.n, x.d * y.d)

NumDiv(x, y) == Num(x.neg # y.neg, x.n * y.d, x.d * y.n)

NumAdd(x, y) ==
  LET sx == IF x.neg THEN 0 - x.n * y.d ELSE x.n * y.d
      sy == IF y.neg THEN 0 - y.n * x.d ELSE y.n * x.d
      t  == sx + sy
  IN  IF t = 0 THEN Num(x.neg /\ y.neg, 0, x.d * y.d)
      ELSE IF t < 0 THEN Num(TRUE, 0 - t, x.d * y.d)
      ELSE Num(FALSE, t, x.d * y.d)

NumNeg(x) == Num(~x.neg, x.n, x.d)

NumSub(x, y) == NumAdd(x, NumNeg(y))

\* x < y as real numbers.
NumLess(x, y) ==
  LET sx == IF x.neg THEN 0 - x.n * y.d ELSE x.n * y.d
      sy == IF y.neg THEN 0 - y.n * x.d ELSE y.n * x.d
  IN  sx < sy

Sign(x) == IF x.neg THEN <<"-">> ELSE <<>>

\* if result.fract() == 0.0 { format!("{:.0}", result) } else { format!("{:.2}", result) }
\* "{:.2}" rounds the exact value to two decimals, ties to even.
FormatNum(x) ==
  IF x.n % x.d = 0 THEN Sign(x) \o NatToStr(x.n \div x.d)
  ELSE LET q0  == (x.n * 100) \div x.d
           rem == (x.n * 100) % x.d
           q   == IF 2 * rem > x.d \/ (2 * rem = x.d /\ q0 % 2 = 1) THEN q0 + 1 ELSE q0
       IN  Sign(x) \o NatToStr(q \div 100) \o <<".">> \o PadDigits(q % 100, 2)

\* Drops the trailing zeros of a fraction's digits.
RECURSIVE TrimZeros(_)
TrimZeros(s) ==
  IF Len(s) > 0 /\ s[Len(s)] = "0" THEN TrimZeros(SubSeq(s, 1, Len(s) - 1)) ELSE s

RECURSIVE Log10(_)
Log10(d) == IF d <= 1 THEN 0 ELSE 1 + Log10(d \div 10)

\* f64::to_string (Display): the shortest decimal that reads back as the value; no
\* exponent, no trailing zeros, no point for a whole number.
F64ToString(x) ==
  LET frac == TrimZeros(PadDigits(x.n % x.d, Log10(x.d)))
  IN  Sign(x) \o NatToStr(x.n \div x.d) \o (IF Len(frac) = 0 THEN <<>> ELSE <<".">> \o frac)

-----------------------------------------------------------------------------
(* The expression engine: ui.rs evaluate_expression_static.                *)

\* An error value (anyhow::Error): its text, with the one name it is formatted with.
E1(fmt, arg) == [fmt |-> fmt, arg |-> arg]

E0(fmt) == E1(fmt, <<>>)

NoErr == E0("")

Ok(v) == [ok |-> TRUE, val |-> v, err |-> NoErr]

Err(e) == [ok |-> FALSE, val |-> <<>>, err |-> e]

DivisionByZero == E0("Division by zero")

\* left.parse::<f64>()? OP right.parse::<f64>()?, formatted; the left operand is
\* parsed first.
ArithResult(l, r, op) ==
  LET Of(x, y) ==
        IF ~x.ok THEN Err(ParseErr(l))
        ELSE IF ~y.ok THEN Err(ParseErr(r))
        ELSE Ok(FormatNum(CASE op = "*" -> NumMul(x, y)
                            [] op = "+" -> NumAdd(x, y)
                            [] OTHER    -> NumSub(x, y)))
  IN  Of(ParseF64(l), ParseF64(r))

\* The division arm: the right operand is parsed and tested first.
DivResult(l, r) ==
  LET Of(x, y) ==
        IF ~y.ok THEN Err(ParseErr(r))
        ELSE IF IsZero(y) THEN Err(DivisionByZero)
        ELSE IF ~x.ok THEN Err(ParseErr(l))
        ELSE Ok(FormatNum(NumDiv(x, y)))
  IN  Of(ParseF64(l), ParseF64(r))

\* SplitAt taking the leftmost "-" that is not the first character where SplitAt takes
\* the rightmost: the variant that C27 must tell from SplitAt.
SplitAtFirstMinus(expr) ==
  IF RFind(expr, "*") > 0 THEN <<RFind(expr, "*"), "*">>
  ELSE IF RFind(expr, "/") > 0 THEN <<RFind(expr, "/"), "/">>
  ELSE IF RFind(expr, "+") > 0 THEN <<RFind(expr, "+"), "+">>
  ELSE IF FindFrom(expr, "-", 2) > 1 THEN <<FindFrom(expr, "-", 2), "-">>
  ELSE <<0, "">>

\* The operator at which evaluate_expression_static splits expr, <<position, operator>>:
\* the rightmost "*", else the rightmost "/", else the rightmost "+", else the
\* rightmost "-" that is not the first character; position 0 when there is none.
SplitAt(expr) ==
  IF RFind(expr, "*") > 0 THEN <<RFind(expr, "*"), "*">>
  ELSE IF RFind(expr, "/") > 0 THEN <<RFind(expr, "/"), "/">>
  ELSE IF RFind(expr, "+") > 0 THEN <<RFind(expr, "+"), "+">>
  ELSE IF RFind(expr, "-") > 1 THEN <<RFind(expr, "-"), "-">>
  ELSE <<0, "">>

\* The operation on the two evaluated sides: the left side's error comes first.
Operate(left, right, op) ==
  IF ~left.ok THEN left
  ELSE IF ~right.ok THEN right
  ELSE IF op = "/" THEN DivResult(left.val, right.val)
  ELSE ArithResult(left.val, right.val, op)

\* The text without operator: a number is formatted, any other text stays.
Operand(expr, num) == IF num.ok THEN Ok(FormatNum(num)) ELSE Ok(expr)

RECURSIVE evaluate_expression_static(_)
evaluate_expression_static(expr0) ==
  LET expr  == RemoveSpaces(expr0)
      start == RFind(expr, "(")
      end   == IF start > 0 THEN FindFrom(expr, ")", start) ELSE 0
      pos   == SplitAt(expr)[1]
      Group(inner) ==
        IF ~inner.ok THEN inner
        ELSE evaluate_expression_static(
               SubSeq(expr, 1, start - 1) \o inner.val \o SubSeq(expr, end + 1, Len(expr)))
  IN  IF start > 0 /\ end > 0
        THEN Group(evaluate_expression_static(SubSeq(expr, start + 1, end - 1)))
      ELSE IF pos > 0
        THEN Operate(evaluate_expression_static(SubSeq(expr, 1, pos - 1)),
                     evaluate_expression_static(SubSeq(expr, pos + 1, Len(expr))),
                     SplitAt(expr)[2])
      ELSE Operand(expr, ParseF64(expr))

-----------------------------------------------------------------------------
(* Option<T> is a sequence of length 0 (None) or 1 (Some(v)).              *)

None == <<>>

Some(v) == <<v>>

IsSome(o) == Len(o) = 1

Get(o) == o[1]

-----------------------------------------------------------------------------
(* The source files the model opens.  A DataSource is one of four          *)
(* variants; the SQLite database and the workbook hold two tables, the     *)
(* flat files one.                                                         *)

Sources == {"Sqlite", "Csv", "Xlsx", "Parquet"}

T1 == <<"t">>

T2 == <<"u">>

CsvTable == <<"C", "S", "V", " ", "D", "a", "t", "a">>

ParquetTable == <<"P", "a", "r", "q", "u", "e", "t", " ", "D", "a", "t", "a">>

Rowid == <<"r", "o", "w", "i", "d">>

ColA == <<"A">>

ColB == <<"B">>

\* DataSource::get_tables
get_tables(src) ==
  CASE src = "Sqlite"  -> <<T1, T2>>
    [] src = "Csv"     -> <<CsvTable>>
    [] src = "Xlsx"    -> <<T1, T2>>
    [] src = "Parquet" -> <<ParquetTable>>

\* The rows of the files: the first table pages (it has more rows than a page), its
\* last row holds text that is no number; the second table has a zero.
RowsT1 == << << <<"1">>, <<"2">> >>, << <<"2">>, <<"1">> >>, << <<"3">>, <<"x">> >> >>

RowsT2 == << << <<"7">>, <<"0">> >> >>

\* What the readers of file_reader.rs (read_csv_file, read_xlsx_file,
\* read_parquet_file) hold in memory for a table, and what the database holds:
\* total_rows = rows.len().
FileData(table) ==
  LET rows == IF table = T2 THEN RowsT2 ELSE RowsT1
  IN  [columns |-> <<ColA, ColB>>, rows |-> rows, total_rows |-> Len(rows)]

Min(a, b) == IF a < b THEN a ELSE b

\* a.saturating_sub(b)
SatSub(a, b) == IF a > b THEN a - b ELSE 0

\* file_reader.rs paginate_data
paginate_data(data, offset, limit) ==
  LET end == Min(offset + limit, Len(data.rows))
  IN  [columns    |-> data.columns,
       rows       |-> IF offset < Len(data.rows) THEN SubSeq(data.rows, offset + 1, end) ELSE <<>>,
       total_rows |-> data.total_rows]

-----------------------------------------------------------------------------
(* database.rs: the SQLite variant.  The SQL engine (rusqlite) is given    *)
(* the statement text; the model's engine knows the statement shapes       *)
(* below and rejects every other text, as SQLite rejects a statement it    *)
(* cannot prepare.                                                         *)

Upper == <<"A","B","C","D","E","F","G","H","I","J","K","L","M",
           "N","O","P","Q","R","S","T","U","V","W","X","Y","Z">>

Lower == <<"a","b","c","d","e","f","g","h","i","j","k","l","m",
           "n","o","p","q","r","s","t","u","v","w","x","y","z">>

ToUpperChar(c) ==
  IF \E i \in 1..26 : Lower[i] = c THEN Upper[CHOOSE i \in 1..26 : Lower[i] = c] ELSE c

ToLowerChar(c) ==
  IF \E i \in 1..26 : Upper[i] = c THEN Lower[CHOOSE i \in 1..26 : Upper[i] = c] ELSE c

to_uppercase(s) == [i \in 1..Len(s) |-> ToUpperChar(s[i])]

to_lowercase(s) == [i \in 1..Len(s) |-> ToLowerChar(s[i])]

\* char::is_alphanumeric on the model's alphabet.
IsAlphanumeric(c) ==
  IsDigit(c) \/ \E i \in 1..26 : Lower[i] = c \/ Upper[i] = c

\* str::split_whitespace
RECURSIVE split_whitespace(_)
split_whitespace(s) ==
  LET t == TrimStart(s)
      sp == FindFrom(t, " ", 1)
  IN  IF Len(t) = 0 THEN <<>>
      ELSE IF sp = 0 THEN <<t>>
      ELSE <<SubSeq(t, 1, sp - 1)>> \o split_whitespace(SubSeq(t, sp + 1, Len(t)))

\* [String]::join(" ")
RECURSIVE JoinSpace(_)
JoinSpace(ws) ==
  IF Len(ws) = 0 THEN <<>>
  ELSE IF Len(ws) = 1 THEN ws[1]
  ELSE ws[1] \o <<" ">> \o JoinSpace(Tail(ws))

StrFrom == <<" ", "F", "R", "O", "M", " ">>

StrFROM == <<"F", "R", "O", "M">>

StrSelect == <<"S", "E", "L", "E", "C", "T">>

StrSelectStar == <<"S", "E", "L", "E", "C", "T", " ", "*">>

StrSelectRowidStar ==
  <<"S", "E", "L", "E", "C", "T", " ", "r", "o", "w", "i", "d", ",", " ", "*">>

StrSelectA == <<"S", "E", "L", "E", "C", "T", " ", "A">>

\* A condition no row satisfies.
StrWhere0 == <<" ", "W", "H", "E", "R", "E", " ", "0">>

\* ReplaceAliasWord replacing every x of the word: the variant that C28 must tell from
\* ReplaceAliasWord.
ReplaceAliasAnywhere(word, table_name) ==
  Replace(Replace(word, <<"x">>, table_name), <<"X">>, table_name)

\* The replacement of one whitespace-delimited word of a query: the alias x, or an x
\* followed by a character that is not alphanumeric, becomes the table name.
ReplaceAliasWord(word, table_name) ==
  IF to_lowercase(word) = <<"x">> THEN table_name
  ELSE IF Len(word) > 1 /\ to_lowercase(word)[1] = "x" /\ ~IsAlphanumeric(word[2])
    THEN table_name \o Tail(word)
  ELSE word

\* Database::execute_custom_query, the alias replacement: every whitespace-delimited
\* word of the query is replaced and the words are joined by one space.
ReplaceAlias(words, table_name) ==
  JoinSpace([i \in 1..Len(words) |-> ReplaceAliasWord(words[i], table_name)])

\* Database::execute_custom_query: FROM table is appended when the text has no FROM.
WithFrom(processed, table_name) ==
  IF ~ContainsStr(to_uppercase(processed), StrFROM)
    THEN processed \o StrFrom \o table_name
    ELSE processed

\* Database::execute_custom_query: SELECT * becomes SELECT rowid, *.
WithRowidStar(with_from) ==
  IF ContainsStr(to_uppercase(with_from), StrSelectStar)
    THEN Replace(with_from, StrSelectStar, StrSelectRowidStar)
    ELSE with_from

\* Database::execute_custom_query, the text it hands to the engine before LIMIT and
\* OFFSET are appended (final_query).
final_query(query, table_name) ==
  WithRowidStar(WithFrom(ReplaceAlias(split_whitespace(query), table_name), table_name))

\* The rows of a table as the engine returns them for SELECT rowid, *.
WithRowid(data) ==
  [columns    |-> <<Rowid>> \o data.columns,
   rows       |-> [i \in 1..Len(data.rows) |-> <<NatToStr(i)>> \o data.rows[i]],
   total_rows |-> Len(data.rows)]

\* The engine: the full result of a statement (without LIMIT and OFFSET), or None when
\* the statement cannot be prepared.
SqlEngine(stmt) ==
  LET Shape(sel, t) == sel \o StrFrom \o t
  IN  IF \E t \in {T1, T2} : stmt = Shape(StrSelectRowidStar, t)
        THEN Some(WithRowid(FileData(CHOOSE t \in {T1, T2} : stmt = Shape(StrSelectRowidStar, t))))
      ELSE IF \E t \in {T1, T2} : stmt = Shape(StrSelectRowidStar, t) \o StrWhere0
        THEN Some([columns |-> <<Rowid, ColA, ColB>>, rows |-> <<>>, total_rows |-> 0])
      ELSE IF \E t \in {T1, T2} : stmt = Shape(StrSelectStar, t)
        THEN Some(FileData(CHOOSE t \in {T1, T2} : stmt = Shape(StrSelectStar, t)))
      ELSE IF \E t \in {T1, T2} : stmt = Shape(StrSelectA, t)
        THEN LET d == FileData(CHOOSE t \in {T1, T2} : stmt = Shape(StrSelectA, t))
             IN  Some([columns    |-> <<ColA>>,
                       rows       |-> [i \in 1..Len(d.rows) |-> <<d.rows[i][1]>>],
                       total_rows |-> Len(d.rows)])
      ELSE None

\* The rows LIMIT limit OFFSET offset keeps.
LimitOffset(rows, limit, offset) ==
  IF offset < Len(rows) THEN SubSeq(rows, offset + 1, Min(offset + limit, Len(rows))) ELSE <<>>

\* A failed call of the collaborator: Result::Err.
Failed == [ok |-> FALSE, data |-> [columns |-> <<>>, rows |-> <<>>, total_rows |-> 0]]

Fetched(d) == [ok |-> TRUE, data |-> d]

\* Database::execute_query: total_rows is the number of rows the statement returned.
execute_query(columns, result_rows) ==
  Fetched([columns |-> columns, rows |-> result_rows, total_rows |-> Len(result_rows)])

\* Database::get_table_data and Database::execute_query: the statement is
\* SELECT rowid, * FROM table LIMIT limit OFFSET offset.  db_ok: the database could be
\* read.
Database_get_table_data(table_name, offset, limit, db_ok) ==
  LET Of(full) == IF ~db_ok \/ ~IsSome(full) THEN Failed
                  ELSE execute_query(Get(full).columns, LimitOffset(Get(full).rows, limit, offset))
  IN  Of(SqlEngine(StrSelectRowidStar \o StrFrom \o table_name))

\* Database::execute_custom_query: total_rows is SELECT COUNT(*) FROM (final_query).
Database_execute_custom_query(query, table_name, offset, limit, db_ok) ==
  LET Of(full) == IF ~db_ok \/ ~IsSome(full) THEN Failed
                  ELSE Fetched([columns    |-> Get(full).columns,
                                rows       |-> LimitOffset(Get(full).rows, limit, offset),
                                total_rows |-> Len(Get(full).rows)])
  IN  Of(SqlEngine(final_query(query, table_name)))

-----------------------------------------------------------------------------
(* data_source.rs: the dispatch over the four variants.                    *)

\* DataSource::get_table_data
get_table_data(src, table_name, offset, limit, db_ok) ==
  CASE src = "Sqlite" -> Database_get_table_data(table_name, offset, limit, db_ok)
    [] src = "Xlsx"   ->
         IF \E i \in 1..Len(get_tables(src)) : get_tables(src)[i] = table_name
           THEN Fetched(paginate_data(FileData(table_name), offset, limit))
           ELSE Failed
    [] OTHER          -> Fetched(paginate_data(FileData(table_name), offset, limit))

\* DataSource::execute_custom_query
execute_custom_query(src, query, table_name, offset, limit, db_ok) ==
  CASE src = "Sqlite" -> Database_execute_custom_query(query, table_name, offset, limit, db_ok)
    [] src = "Xlsx"   ->
         IF /\ \E i \in 1..Len(get_tables(src)) : get_tables(src)[i] = table_name
            /\ ContainsStr(to_uppercase(query), StrSelect)
           THEN Fetched(paginate_data(FileData(table_name), offset, limit))
           ELSE Failed
    [] OTHER          ->
         IF ContainsStr(to_uppercase(query), StrSelect)
           THEN Fetched(paginate_data(FileData(table_name), offset, limit))
           ELSE Failed

\* DataSource::supports_custom_queries
supports_custom_queries(src) == src \in {"Sqlite", "Csv", "Parquet"}

-----------------------------------------------------------------------------
(* ui.rs: computed columns.  A ComputedColumn is [name, expression,        *)
(* column_type]; a ComputedColumnType is [kind, func, cols, aggs] with     *)
(* kind one of Aggregate(func), RowOperation(cols),                        *)
(* MixedOperation(cols, aggs).                                             *)

Aggregate(func) == [kind |-> "Aggregate", func |-> func, cols |-> <<>>, aggs |-> <<>>]

RowOperation(cols) == [kind |-> "RowOperation", func |-> <<>>, cols |-> cols, aggs |-> <<>>]

MixedOperation(cols, aggs) ==
  [kind |-> "MixedOperation", func |-> <<>>, cols |-> cols, aggs |-> aggs]

ComputedColumn(name, expression, column_type) ==
  [name |-> name, expression |-> expression, column_type |-> column_type]

AggFuncs == << <<"s", "u", "m">>, <<"m", "e", "a", "n">>, <<"c", "o", "u", "n", "t">>,
               <<"m", "i", "n">>, <<"m", "a", "x">> >>

IsAggFunc(tok) == \E i \in 1..Len(AggFuncs) : AggFuncs[i] = tok

\* Vec::contains / iter().position(|x| x == name): the first index (1-based), 0 if none.
Position(seq, x) ==
  IF \E i \in 1..Len(seq) : seq[i] = x
    THEN CHOOSE i \in 1..Len(seq) : seq[i] = x /\ \A j \in 1..(i-1) : seq[j] # x
    ELSE 0

\* Vec::remove(pos) for a position inside the vector (1-based).
RemoveAt(seq, pos) == SubSeq(seq, 1, pos - 1) \o SubSeq(seq, pos + 1, Len(seq))

\* The regex ^(sum|mean|count|min|max)\(([^)]+)\)$ : the function matched at the
\* start of s (its index in AggFuncs), 0 when s does not match.
AggregateRegexFunc(s) ==
  LET Matches(i) ==
        LET f == AggFuncs[i]
        IN  /\ Len(s) >= Len(f) + 3
            /\ MatchAt(s, f \o <<"(">>, 1)
            /\ s[Len(s)] = ")"
            /\ \A k \in (Len(f) + 2)..(Len(s) - 1) : s[k] # ")"
  IN  IF \E i \in 1..Len(AggFuncs) : Matches(i)
        THEN CHOOSE i \in 1..Len(AggFuncs) : Matches(i)
        ELSE 0

\* Capture group 2 of that regex.
AggregateRegexColumn(s) == SubSeq(s, Len(AggFuncs[AggregateRegexFunc(s)]) + 2, Len(s) - 1)

\* The end of the match of (sum|mean|count|min|max)\([^)]+\) starting at i, 0 if none.
AggMatchEnd(s, i) ==
  LET Ends(k) ==
        LET f == AggFuncs[k]
            close == FindFrom(s, ")", i + Len(f) + 1)
        IN  IF MatchAt(s, f \o <<"(">>, i) /\ close > i + Len(f) + 1 THEN close ELSE 0
  IN  IF \E k \in 1..Len(AggFuncs) : Ends(k) > 0
        THEN Ends(CHOOSE k \in 1..Len(AggFuncs) : Ends(k) > 0)
        ELSE 0

RECURSIVE AggScan(_, _)
AggScan(s, i) ==
  IF i > Len(s) THEN <<>>
  ELSE IF AggMatchEnd(s, i) > 0
    THEN <<SubSeq(s, i, AggMatchEnd(s, i))>> \o AggScan(s, AggMatchEnd(s, i) + 1)
    ELSE AggScan(s, i + 1)

\* extract_aggregate_expressions: the matches of the regex, left to right.
extract_aggregate_expressions(expression) == AggScan(expression, 1)

\* extract_column_from_aggregate
extract_column_from_aggregate(aggregate_expr) ==
  IF AggregateRegexFunc(aggregate_expr) > 0
    THEN Ok(Trim(AggregateRegexColumn(aggregate_expr)))
    ELSE Err(E1("Invalid aggregate expression: {}", aggregate_expr))

\* The byte order of the characters (ASCII), for Vec<String>::sort.
Ascii == <<" ", "(", ")", "*", "+", ",", "-", ".", "/",
           "0", "1", "2", "3", "4", "5", "6", "7", "8", "9", "=",
           "A","B","C","D","E","F","G","H","I","J","K","L","M",
           "N","O","P","Q","R","S","T","U","V","W","X","Y","Z", "_",
           "a","b","c","d","e","f","g","h","i","j","k","l","m",
           "n","o","p","q","r","s","t","u","v","w","x","y","z">>

CharCode(c) == CHOOSE i \in 1..Len(Ascii) : Ascii[i] = c

RECURSIVE StrLess(_, _)
StrLess(a, b) ==
  IF Len(b) = 0 THEN FALSE
  ELSE IF Len(a) = 0 THEN TRUE
  ELSE IF a[1] = b[1] THEN StrLess(Tail(a), Tail(b))
  ELSE CharCode(a[1]) < CharCode(b[1])

\* columns.sort(); columns.dedup();
RECURSIVE SortDedupSet(_)
SortDedupSet(strings) ==
  IF strings = {} THEN <<>>
  ELSE LET m == CHOOSE x \in strings : \A y \in strings \ {x} : StrLess(x, y)
       IN  <<m>> \o SortDedupSet(strings \ {m})

SortDedup(seq) == SortDedupSet({seq[i] : i \in 1..Len(seq)})

IsDelimiter(c) == c \in {"+", "-", "*", "/", "(", ")", " ", ","}

\* The tokens of extract_column_names: the maximal runs of characters that are no
\* delimiters, in order.
RECURSIVE Tokens(_)
Tokens(s) ==
  IF Len(s) = 0 THEN <<>>
  ELSE IF IsDelimiter(s[1]) THEN Tokens(Tail(s))
  ELSE LET stop == IF \E i \in 1..Len(s) : IsDelimiter(s[i])
                     THEN CHOOSE i \in 1..Len(s) :
                            IsDelimiter(s[i]) /\ \A j \in 1..(i-1) : ~IsDelimiter(s[j])
                     ELSE Len(s) + 1
       IN  <<SubSeq(s, 1, stop - 1)>> \o Tokens(SubSeq(s, stop, Len(s)))

\* extract_column_names: the tokens that are neither numbers nor function names,
\* sorted, without duplicates.
extract_column_names(expression) ==
  SortDedup(SelectSeq(Tokens(expression),
                      LAMBDA tok : ~ParseF64(tok).ok /\ ~IsAggFunc(tok)))

\* str::trim_start_matches(pat) / trim_end_matches(pat): repeatedly.
RECURSIVE TrimStartMatches(_, _)
TrimStartMatches(s, pat) ==
  IF Len(pat) > 0 /\ MatchAt(s, pat, 1)
    THEN TrimStartMatches(SubSeq(s, Len(pat) + 1, Len(s)), pat)
    ELSE s

RECURSIVE TrimEndMatches(_, _)
TrimEndMatches(s, c) ==
  IF Len(s) > 0 /\ s[Len(s)] = c THEN TrimEndMatches(SubSeq(s, 1, Len(s) - 1), c) ELSE s

Zero == Num(FALSE, 0, 1)

RECURSIVE NumSum(_)
NumSum(vals) == IF Len(vals) = 0 THEN Zero ELSE NumAdd(NumSum(SubSeq(vals, 1, Len(vals) - 1)), vals[Len(vals)])

\* fold(f64::INFINITY, |a, b| a.min(b)) over a non-empty list
RECURSIVE NumMin(_)
NumMin(vals) ==
  IF Len(vals) = 1 THEN vals[1]
  ELSE LET m == NumMin(SubSeq(vals, 1, Len(vals) - 1))
       IN  IF NumLess(vals[Len(vals)], m) THEN vals[Len(vals)] ELSE m

RECURSIVE NumMax(_)
NumMax(vals) ==
  IF Len(vals) = 1 THEN vals[1]
  ELSE LET m == NumMax(SubSeq(vals, 1, Len(vals) - 1))
       IN  IF NumLess(m, vals[Len(vals)]) THEN vals[Len(vals)] ELSE m

StrSum == <<"s", "u", "m">>
StrMean == <<"m", "e", "a", "n">>
StrCount == <<"c", "o", "u", "n", "t">>
StrMin == <<"m", "i", "n">>
StrMax == <<"m", "a", "x">>

\* compute_aggregate_static, the match on func over the values of the column that
\* parse as numbers.
AggregateOf(func, values) ==
  IF Len(values) = 0 THEN Ok(<<"0">>)
  ELSE IF func = StrSum THEN Ok(FormatNum(NumSum(values)))
  ELSE IF func = StrMean THEN Ok(FormatNum(NumDiv(NumSum(values), Num(FALSE, Len(values), 1))))
  ELSE IF func = StrCount THEN Ok(FormatNum(Num(FALSE, Len(values), 1)))
  ELSE IF func = StrMin THEN Ok(FormatNum(NumMin(values)))
  ELSE IF func = StrMax THEN Ok(FormatNum(NumMax(values)))
  ELSE Err(E1("Unknown function: {}", func))

\* ColumnValues taking a cell that is no number for 0: the variant that C21 must tell
\* from ColumnValues.
ColumnValuesCoerced(data, col_idx) ==
  [i \in 1..Len(data.rows) |->
     IF col_idx <= Len(data.rows[i]) /\ ParseF64(data.rows[i][col_idx]).ok
       THEN ParseF64(data.rows[i][col_idx]) ELSE Zero]

\* compute_aggregate_static, values: the cells of the column that parse as numbers,
\* in row order (filter_map over row.get(col_idx)).
ColumnValues(data, col_idx) ==
  LET Parsed(cells) == [i \in 1..Len(cells) |-> ParseF64(cells[i])]
  IN  Parsed(SelectSeq([i \in 1..Len(data.rows) |->
                          IF col_idx <= Len(data.rows[i]) THEN data.rows[i][col_idx] ELSE <<"?">>],
                       LAMBDA c : ParseF64(c).ok))

\* compute_aggregate_static, column_name: what is left of the expression without the
\* function name and the parentheses.
AggregateColumnName(func, expression) ==
  Trim(TrimEndMatches(TrimStartMatches(TrimStartMatches(expression, func), <<"(">>), ")"))

\* compute_aggregate_static
compute_aggregate_static(data, func, expression) ==
  LET Of(column_name, col_idx) ==
        IF col_idx = 0 THEN Err(E1("Column '{}' not found", column_name))
        ELSE AggregateOf(func, ColumnValues(data, col_idx))
  IN  Of(AggregateColumnName(func, expression),
         Position(data.columns, AggregateColumnName(func, expression)))

\* unwrap_or(0.0) of the row's cell parsed as a number.
UnwrapOr0(num) == IF num.ok THEN num ELSE Zero

\* One turn of the loop of compute_row_operation_static: the column name is replaced
\* by the row's value when the column exists and the row has the cell.
SubstituteColumn(row, expr, col_name, col_idx) ==
  IF col_idx > 0 /\ col_idx <= Len(row)
    THEN Replace(expr, col_name, F64ToString(UnwrapOr0(ParseF64(row[col_idx]))))
    ELSE expr

\* The loop of compute_row_operation_static / compute_mixed_operation_static that
\* replaces each column name by the row's value (0 when the cell is no number).
RECURSIVE SubstituteColumns(_, _, _, _)
SubstituteColumns(data, row, expr, columns_used) ==
  IF Len(columns_used) = 0 THEN expr
  ELSE SubstituteColumns(data, row,
                         SubstituteColumn(row, expr, columns_used[1],
                                          Position(data.columns, columns_used[1])),
                         Tail(columns_used))

\* compute_row_operation_static
compute_row_operation_static(data, row, expression, columns_used) ==
  evaluate_expression_static(SubstituteColumns(data, row, expression, columns_used))

\* The first loop of compute_mixed_operation_static: each aggregate expression is
\* replaced by its value; an aggregate that fails ends the computation.
RECURSIVE SubstituteAggregates(_, _, _)
SubstituteAggregates(data, expr, aggregate_expressions) ==
  LET Of(agg_expr, agg_value) ==
        IF ~agg_value.ok THEN agg_value
        ELSE SubstituteAggregates(data, Replace(expr, agg_expr, agg_value.val),
                                  Tail(aggregate_expressions))
  IN  IF Len(aggregate_expressions) = 0 THEN Ok(expr)
      ELSE IF AggregateRegexFunc(aggregate_expressions[1]) = 0
        THEN SubstituteAggregates(data, expr, Tail(aggregate_expressions))
      ELSE Of(aggregate_expressions[1],
              compute_aggregate_static(data,
                                       AggFuncs[AggregateRegexFunc(aggregate_expressions[1])],
                                       aggregate_expressions[1]))

\* compute_mixed_operation_static
compute_mixed_operation_static(data, row, expression, columns_used, aggregate_expressions) ==
  LET Of(with_aggs) ==
        IF ~with_aggs.ok THEN with_aggs
        ELSE evaluate_expression_static(SubstituteColumns(data, row, with_aggs.val, columns_used))
  IN  Of(SubstituteAggregates(data, expression, aggregate_expressions))

\* A Result<()> of a function that works on the page: the page as the function left
\* it, and whether the thread panicked.
PageOk(data) == [ok |-> TRUE, panic |-> FALSE, data |-> data, err |-> NoErr]

PageErr(data, e) == [ok |-> FALSE, panic |-> FALSE, data |-> data, err |-> e]

PagePanic(data) == [ok |-> FALSE, panic |-> TRUE, data |-> data, err |-> NoErr]

\* The value of one computed column for one row.
RowValue(data, row, computed_col) ==
  IF computed_col.column_type.kind = "RowOperation"
    THEN compute_row_operation_static(data, row, computed_col.expression,
                                      computed_col.column_type.cols)
    ELSE compute_mixed_operation_static(data, row, computed_col.expression,
                                        computed_col.column_type.cols,
                                        computed_col.column_type.aggs)

\* The values of one computed column for the rows of data, in row order; the first
\* row whose evaluation fails ends the loop with its error.
RECURSIVE RowValues(_, _, _)
RowValues(data, computed_col, i) ==
  LET Of(value, rest) == IF ~value.ok THEN value
                         ELSE IF ~rest.ok THEN rest
                         ELSE Ok(<<value.val>> \o rest.val)
  IN  IF i > Len(data.rows) THEN Ok(<<>>)
      ELSE Of(RowValue(data, data.rows[i], computed_col), RowValues(data, computed_col, i + 1))

\* The values are pushed onto the rows of d: the one value of an aggregate onto every
\* row, or each row's own value.  An error leaves the rows as they were.
PushValues(d, values, per_row) ==
  IF ~values.ok THEN PageErr(d, values.err)
  ELSE PageOk([d EXCEPT !.rows = [i \in 1..Len(d.rows) |->
                                    Append(d.rows[i],
                                           IF per_row THEN values.val[i] ELSE values.val)]])

\* The body shared by apply_computed_columns and refresh_computed_columns, after the
\* name is pushed onto the columns of d.
PushOnto(d, computed_col) ==
  IF computed_col.column_type.kind = "Aggregate"
    THEN PushValues(d, compute_aggregate_static(d, computed_col.column_type.func,
                                                computed_col.expression), FALSE)
    ELSE PushValues(d, RowValues(d, computed_col, 1), TRUE)

\* The body shared by apply_computed_columns and refresh_computed_columns: the name
\* is pushed onto columns, then the values are computed and pushed onto the rows.  An
\* error leaves the name pushed and the rows as they were.
PushComputed(data, computed_col) ==
  PushOnto([data EXCEPT !.columns = Append(@, computed_col.name)], computed_col)

\* columns.remove(pos) and, for every row with pos < row.len(), row.remove(pos).
RemoveColumn(data, pos) ==
  [data EXCEPT !.columns = RemoveAt(@, pos),
               !.rows = [i \in 1..Len(data.rows) |->
                           IF pos <= Len(data.rows[i]) THEN RemoveAt(data.rows[i], pos)
                           ELSE data.rows[i]]]

\* apply_computed_columns: a column of the page with the computed column's name is
\* removed before the computed column is pushed.
WithoutColumn(data, pos) == IF pos > 0 THEN RemoveColumn(data, pos) ELSE data

\* apply_computed_columns, from the i-th computed column on.
RECURSIVE ApplyFrom(_, _, _)
ApplyFrom(data, computed_cols, i) ==
  LET Of(r) == IF ~r.ok THEN r ELSE ApplyFrom(r.data, computed_cols, i + 1)
  IN  IF i > Len(computed_cols) THEN PageOk(data)
      ELSE Of(PushComputed(WithoutColumn(data, Position(data.columns, computed_cols[i].name)),
                           computed_cols[i]))

apply_computed_columns(data, computed_cols) == ApplyFrom(data, computed_cols, 1)

\* cols_to_remove of refresh_computed_columns: the position of each computed column's
\* name in the page, in the order of computed_cols.
ColsToRemove(data, computed_cols) ==
  LET found == SelectSeq(computed_cols, LAMBDA c : Position(data.columns, c.name) > 0)
  IN  [i \in 1..Len(found) |-> Position(data.columns, found[i].name)]

\* cols_to_remove.sort_by(|a, b| b.cmp(a)): descending, duplicates kept.
RECURSIVE SortDesc(_)
SortDesc(seq) ==
  IF Len(seq) = 0 THEN <<>>
  ELSE LET k == CHOOSE i \in 1..Len(seq) : \A j \in 1..Len(seq) : seq[j] <= seq[i]
       IN  <<seq[k]>> \o SortDesc(RemoveAt(seq, k))

\* The removal loop: Vec::remove panics when the position is outside the vector.
RECURSIVE RemoveAll(_, _)
RemoveAll(data, positions) ==
  IF Len(positions) = 0 THEN PageOk(data)
  ELSE IF positions[1] > Len(data.columns) THEN PagePanic(data)
  ELSE RemoveAll(RemoveColumn(data, positions[1]), Tail(positions))

RECURSIVE ReapplyFrom(_, _, _)
ReapplyFrom(data, computed_cols, i) ==
  LET Of(r) == IF ~r.ok THEN r ELSE ReapplyFrom(r.data, computed_cols, i + 1)
  IN  IF i > Len(computed_cols) THEN PageOk(data)
      ELSE Of(PushComputed(data, computed_cols[i]))

\* refresh_computed_columns
refresh_computed_columns(data, computed_cols) ==
  LET Of(removed) == IF removed.panic THEN removed ELSE ReapplyFrom(removed.data, computed_cols, 1)
  IN  Of(RemoveAll(data, SortDesc(ColsToRemove(data, computed_cols))))

\* The result of parse_and_add_computed_column: the list with the new column pushed,
\* or the error.
Added(computed_cols, c) == [ok |-> TRUE, cols |-> Append(computed_cols, c), err |-> NoErr]

Rejected(computed_cols, e) == [ok |-> FALSE, cols |-> computed_cols, err |-> e]

InvalidFormat ==
  E0("Invalid expression format. Use sum(Column), mean(Column), Column1 + Column2, or numeric constants")

\* data.columns.contains(col)
HasColumn(page, col) == Position(Get(page).columns, col) > 0

\* column_name.unwrap_or_else(|| default)
NameOr(column_name, default) == IF IsSome(column_name) THEN Get(column_name) ELSE default

\* parse_and_add_computed_column, the aggregate arm.
AddAggregate(page, computed_cols, column_name, expr_part, func, column) ==
  IF IsSome(page) /\ ~HasColumn(page, column)
    THEN Rejected(computed_cols, E1("Column '{}' does not exist", column))
    ELSE Added(computed_cols,
               ComputedColumn(NameOr(column_name, func \o <<"(">> \o column \o <<")">>),
                              expr_part, Aggregate(func)))

\* parse_and_add_computed_column, the arm of row operations, mixed operations and
\* constant expressions.
AddOperation(page, computed_cols, column_name, expr_part, columns_used, aggregate_expressions) ==
  LET missing  == SelectSeq(columns_used, LAMBDA col : ~HasColumn(page, col))
      bad_aggs == SelectSeq(aggregate_expressions,
                            LAMBDA a : ~HasColumn(page, extract_column_from_aggregate(a).val))
  IN  IF IsSome(page) /\ Len(missing) > 0
        THEN Rejected(computed_cols, E1("Column '{}' does not exist", missing[1]))
      ELSE IF IsSome(page) /\ Len(bad_aggs) > 0
        THEN Rejected(computed_cols,
                      E1("Column '{}' in aggregate '{}' does not exist",
                         extract_column_from_aggregate(bad_aggs[1]).val))
      ELSE Added(computed_cols,
                 ComputedColumn(NameOr(column_name, expr_part), expr_part,
                                IF Len(aggregate_expressions) = 0
                                  THEN RowOperation(columns_used)
                                  ELSE MixedOperation(columns_used, aggregate_expressions)))

\* parse_and_add_computed_column, from "Parse different types of expressions" on.
AddExpression(page, computed_cols, column_name, expr_part) ==
  IF AggregateRegexFunc(expr_part) > 0
    THEN AddAggregate(page, computed_cols, column_name, expr_part,
                      AggFuncs[AggregateRegexFunc(expr_part)],
                      Trim(AggregateRegexColumn(expr_part)))
  ELSE IF \/ \E i \in 1..Len(expr_part) : expr_part[i] \in {"+", "-", "*", "/"}
          \/ \A i \in 1..Len(expr_part) : IsDigit(expr_part[i]) \/ expr_part[i] \in {".", " "}
    THEN AddOperation(page, computed_cols, column_name, expr_part,
                      extract_column_names(expr_part), extract_aggregate_expressions(expr_part))
  ELSE IF ParseF64(Trim(expr_part)).ok
    THEN Added(computed_cols,
               ComputedColumn(NameOr(column_name, expr_part), expr_part, RowOperation(<<>>)))
  ELSE IF IsSome(page) /\ HasColumn(page, expr_part)
    THEN Added(computed_cols,
               ComputedColumn(NameOr(column_name, expr_part), expr_part,
                              RowOperation(<<expr_part>>)))
  ELSE Rejected(computed_cols, InvalidFormat)

\* parse_and_add_computed_column, the expression with a custom name (name=expr).
AddNamed(page, computed_cols, name, expr_part) ==
  IF Len(name) = 0 \/ Len(expr_part) = 0
    THEN Rejected(computed_cols, E0("Invalid syntax. Use 'column_name=expression'"))
  ELSE IF \E i \in 1..Len(name) : ~(IsAlphanumeric(name[i]) \/ name[i] = "_")
    THEN Rejected(computed_cols,
                  E0("Column name can only contain letters, numbers, and underscores"))
  ELSE AddExpression(page, computed_cols, Some(name), expr_part)

\* parse_and_add_computed_column; page is the Option of the page.
parse_and_add_computed_column(page, computed_cols, input) ==
  LET Of(expression, eq_pos) ==
        IF eq_pos > 0
          THEN AddNamed(page, computed_cols, Trim(SubSeq(expression, 1, eq_pos - 1)),
                        Trim(SubSeq(expression, eq_pos + 1, Len(expression))))
          ELSE AddExpression(page, computed_cols, None, expression)
  IN  Of(Trim(input), FindFrom(Trim(input), "=", 1))

-----------------------------------------------------------------------------
(* Model bounds.                                                           *)

\* AppState::page_size.  The program sets 25; the model pages by a smaller number so
\* that a table of three rows has more than one page.
PageSize == 2

\* The rows a page may hold after new rows were added with n / Ctrl+n.
MaxRows == 3

\* The characters typed or deleted in Edit mode during a run.
MaxTyped == 1

\* The computed columns defined for one table.
MaxComputed == 1

\* The clock runs from tick 0 to tick MaxNow.
MaxNow == 2

\* The ticks of the clock in one second: the file system's times are finer than the
\* whole seconds that calculate_file_hash keeps.
TicksPerSecond == 2

\* The largest size of the source file.
MaxFileLen == 2

-----------------------------------------------------------------------------
(* The state.  The variables are the fields of AppState (ui.rs 50-76), the *)
(* collaborators' state (the variant of the DataSource, the file's         *)
(* fingerprint, the stored record of persistence.rs) and what the event    *)
(* loop of main.rs does with the result of handle_key_event.               *)
(* original_data is written by load_current_data and read nowhere; it is   *)
(* left out.  db_path is fixed, and tables = get_tables(source).           *)

VARIABLES
  source,                      \* the variant of DataSource opened by main
  file_metadata,               \* fs::metadata of the source file: [len, modified], modified in ticks
  now,                         \* SystemTime::now(), in ticks
  store,                       \* Option<FileComputedColumns>: the record stored for db_path
  app,                         \* "running", "quit" (Ok(false)), "fatal" (Err), "panic"
  fatal_error,                 \* the error run_app returned
  selected_table_idx, selected_row_idx, selected_col_idx,
  navigation_mode, previous_navigation_mode,
  current_query, query_input,
  data_offset, page_size,
  current_data,                \* Option<QueryResult>
  status_message, error_message,
  show_help,
  edit_input, editing_cell,
  data_modified,
  detailed_view_row, detailed_view_selected_field,
  clipboard,                   \* Option<Clipboard>: None until the first copy
  clipboard_text,              \* the text the system clipboard holds
  computed_column_input, computed_columns,
  key,                         \* the last key event ("" before the first)
  io,                          \* the collaborator calls of the last key event, in order
  loaded,                      \* history: the last list load_computed_columns took from the store
  typed,                       \* history: characters typed or deleted in Edit mode
  ev_in, ev_expr, ev_result,   \* the expression engine alone: input, text, result
  f_req, f_result,             \* the data-access layer alone: request, page
  p_call,                      \* the store alone: the last call and what it returned
  p_fresh                      \* history: table -> list saved since the file was last written

appVars ==
  <<selected_table_idx, selected_row_idx, selected_col_idx,
    navigation_mode, previous_navigation_mode, current_query, query_input,
    data_offset, page_size, current_data, status_message, error_message, show_help,
    edit_input, editing_cell, data_modified, detailed_view_row,
    detailed_view_selected_field, clipboard, clipboard_text,
    computed_column_input, computed_columns>>

navVars ==
  <<source, file_metadata, now, store, app, fatal_error, appVars, key, io, loaded, typed>>

evVars == <<ev_in, ev_expr, ev_result>>

fetchVars == <<f_req, f_result>>

persistVars == <<p_call, p_fresh>>

vars == <<navVars, evVars, fetchVars, persistVars>>

\* The state as one value, so that a handler is a function from state to state and
\* the calls it makes compose in order.  ctl is the handler's way out: "run" (Ok(true)),
\* "quit" (Ok(false)), "fatal" (an Err carried out by ?), "panic".
S ==
  [ctl |-> "run", fatal_error |-> NoErr, store |-> store,
   selected_table_idx |-> selected_table_idx, selected_row_idx |-> selected_row_idx,
   selected_col_idx |-> selected_col_idx, navigation_mode |-> navigation_mode,
   previous_navigation_mode |-> previous_navigation_mode,
   current_query |-> current_query, query_input |-> query_input,
   data_offset |-> data_offset, page_size |-> page_size, current_data |-> current_data,
   status_message |-> status_message, error_message |-> error_message,
   show_help |-> show_help, edit_input |-> edit_input, editing_cell |-> editing_cell,
   data_modified |-> data_modified, detailed_view_row |-> detailed_view_row,
   detailed_view_selected_field |-> detailed_view_selected_field,
   clipboard |-> clipboard, clipboard_text |-> clipboard_text,
   computed_column_input |-> computed_column_input, computed_columns |-> computed_columns,
   key |-> key, io |-> io, loaded |-> loaded, typed |-> typed]

\* The next state is s.
Becomes(s) ==
  /\ app' = IF s.ctl = "run" THEN "running" ELSE s.ctl
  /\ fatal_error' = s.fatal_error
  /\ store' = s.store
  /\ selected_table_idx' = s.selected_table_idx
  /\ selected_row_idx' = s.selected_row_idx
  /\ selected_col_idx' = s.selected_col_idx
  /\ navigation_mode' = s.navigation_mode
  /\ previous_navigation_mode' = s.previous_navigation_mode
  /\ current_query' = s.current_query
  /\ query_input' = s.query_input
  /\ data_offset' = s.data_offset
  /\ page_size' = s.page_size
  /\ current_data' = s.current_data
  /\ status_message' = s.status_message
  /\ error_message' = s.error_message
  /\ show_help' = s.show_help
  /\ edit_input' = s.edit_input
  /\ editing_cell' = s.editing_cell
  /\ data_modified' = s.data_modified
  /\ detailed_view_row' = s.detailed_view_row
  /\ detailed_view_selected_field' = s.detailed_view_selected_field
  /\ clipboard' = s.clipboard
  /\ clipboard_text' = s.clipboard_text
  /\ computed_column_input' = s.computed_column_input
  /\ computed_columns' = s.computed_columns
  /\ key' = s.key
  /\ io' = s.io
  /\ loaded' = s.loaded
  /\ typed' = s.typed
  /\ UNCHANGED <<source, file_metadata, now, evVars, fetchVars, persistVars>>

\* return Err(e) / the ? operator
Fatal(s, e) == [s EXCEPT !.ctl = "fatal", !.fatal_error = e]

\* What the event loop cannot influence: the outcome of each collaborator in one key
\* event.  db_ok: the database can be read; write_ok: a CSV file can be written;
\* store_ok: the record of the store can be written.
Envs ==
  [db_ok : IF source = "Sqlite" THEN BOOLEAN ELSE {TRUE},
   write_ok : BOOLEAN, store_ok : BOOLEAN]

\* The outcomes that matter to a key: every collaborator it does not call succeeds.
AllOk == [db_ok |-> TRUE, write_ok |-> TRUE, store_ok |-> TRUE]

NoEnv == {AllOk}

LoadEnvs == {env \in Envs : env.write_ok /\ env.store_ok}

ExportEnvs == {env \in Envs : env.store_ok}

WriteEnvs == {env \in Envs : env.db_ok /\ env.store_ok}

StoreEnvs == {env \in Envs : env.db_ok /\ env.write_ok}

Tables == get_tables(source)

\* AppState::current_table (selected_table_idx is always inside tables)
current_table(s) == Tables[s.selected_table_idx + 1]

\* min_col with no column set apart as the identity column: the variant that C26 must
\* tell from min_col.
min_col_any(data) == 0

\* The first column a cursor may stand on: 1 when columns[0] == "rowid", else 0.
min_col(data) == IF Len(data.columns) > 0 /\ data.columns[1] = Rowid THEN 1 ELSE 0

-----------------------------------------------------------------------------
(* persistence.rs.  The stored record is [file_hash, last_modified,        *)
(* computed_columns] with computed_columns a map from table name to list;  *)
(* saved_under is history: the fingerprint the file had when a table's     *)
(* list was written; saved_metadata is history: the metadata the file had  *)
(* at the last save.                                                       *)

\* Duration::as_secs: the whole seconds of a time in ticks.
as_secs(ticks) == ticks \div TicksPerSecond

\* calculate_file_hash: format!("{}_{}", len, modified as whole seconds); the file
\* exists for as long as it is open.
calculate_file_hash == <<file_metadata.len, as_secs(file_metadata.modified)>>

ToPersisted(col) ==
  [name |-> col.name, expression |-> col.expression,
   column_type |-> [kind |-> col.column_type.kind, func |-> col.column_type.func,
                    cols |-> col.column_type.cols, aggs |-> col.column_type.aggs]]

\* FromPersisted taking every stored column for a row operation: the variant that C16
\* must tell from FromPersisted.
FromPersistedAsRowOperation(col) ==
  ComputedColumn(col.name, col.expression, RowOperation(col.column_type.cols))

FromPersisted(col) ==
  ComputedColumn(col.name, col.expression,
                 CASE col.column_type.kind = "Aggregate" -> Aggregate(col.column_type.func)
                   [] col.column_type.kind = "RowOperation" -> RowOperation(col.column_type.cols)
                   [] OTHER -> MixedOperation(col.column_type.cols, col.column_type.aggs))

\* HashMap::insert
MapInsert(m, k, v) == [x \in DOMAIN m \cup {k} |-> IF x = k THEN v ELSE m[x]]

EmptyMap == [x \in {} |-> <<>>]

\* save_computed_columns writing a record that holds the given table alone: the variant
\* that C17 must tell from save_computed_columns.
SaveTableAlone(st, table_name, cols) ==
  Some([file_hash |-> calculate_file_hash,
        last_modified |-> as_secs(now),
        saved_metadata |-> file_metadata,
        computed_columns |->
          MapInsert(EmptyMap, table_name, [i \in 1..Len(cols) |-> ToPersisted(cols[i])]),
        saved_under |-> MapInsert(EmptyMap, table_name, calculate_file_hash)])

\* ComputedColumnPersistence::save_computed_columns, the record it writes.
persistence_save_computed_columns(st, table_name, cols) ==
  LET file_hash == calculate_file_hash
      file_data == IF IsSome(st) THEN Get(st)
                   ELSE [file_hash |-> file_hash, last_modified |-> as_secs(now),
                         computed_columns |-> EmptyMap,
                         saved_under |-> EmptyMap, saved_metadata |-> file_metadata]
  IN  Some([file_hash |-> file_hash,
            last_modified |-> as_secs(now),
            saved_metadata |-> file_metadata,
            computed_columns |->
              MapInsert(file_data.computed_columns, table_name,
                        [i \in 1..Len(cols) |-> ToPersisted(cols[i])]),
            saved_under |-> MapInsert(file_data.saved_under, table_name, file_hash)])

\* ComputedColumnPersistence::load_computed_columns: None stands for Err (no record).
persistence_load_computed_columns(st, table_name) ==
  IF ~IsSome(st) THEN None
  ELSE IF calculate_file_hash # Get(st).file_hash THEN Some(<<>>)
  ELSE IF table_name \in DOMAIN Get(st).computed_columns
    THEN Some([i \in 1..Len(Get(st).computed_columns[table_name]) |->
                 FromPersisted(Get(st).computed_columns[table_name][i])])
    ELSE Some(<<>>)

\* ComputedColumnPersistence::should_recalculate
should_recalculate(st) == IsSome(st) /\ calculate_file_hash # Get(st).file_hash

-----------------------------------------------------------------------------
(* ui.rs: the helpers of the key handlers.                                 *)

\* The text of a message: its format string, the error it was made from (cause, arg).
Msg(fmt, e) == [fmt |-> fmt, cause |-> e.fmt, arg |-> e.arg]

\* What a failed call of the data source returns (rusqlite's or the reader's error).
SourceError == E0("data source error")

WriteError == E0("csv write error")

StoreError == E0("Failed to save computed columns")

ClipboardError == E0("clipboard error")

\* A panic of the thread (an index outside a Vec).
Panic(s) == [s EXCEPT !.ctl = "panic"]

\* A collaborator was called: what names the call and how it ended.
Called(s, what) == [s EXCEPT !.io = Append(@, what)]

\* The call what is among calls.
Did(calls, what) == \E i \in 1..Len(calls) : calls[i] = what

\* show_error switching the mode before it remembers it, so that the remembered
\* mode is ErrorDisplay: the variant that C39 must tell from show_error.
show_errorModeFirst(s, error) ==
  [s EXCEPT !.error_message = Some(error),
            !.navigation_mode = "ErrorDisplay",
            !.previous_navigation_mode = "ErrorDisplay"]

\* AppState::show_error
show_error(s, error) ==
  [s EXCEPT !.error_message = Some(error),
            !.previous_navigation_mode = s.navigation_mode,
            !.navigation_mode = "ErrorDisplay"]

\* AppState::reset_data_view
reset_data_view(s) ==
  [s EXCEPT !.current_query = None, !.current_data = None,
            !.selected_row_idx = 0, !.selected_col_idx = 0, !.data_offset = 0,
            !.editing_cell = None, !.edit_input = <<>>, !.data_modified = FALSE]

\* AppState::ensure_valid_col_selection
ensure_valid_col_selection(s) ==
  IF IsSome(s.current_data) /\ s.selected_col_idx < min_col(Get(s.current_data))
    THEN [s EXCEPT !.selected_col_idx = min_col(Get(s.current_data))]
    ELSE s

\* load_computed_columns keeping the list in memory when the store has no record: the
\* variant that C18 must tell from load_computed_columns.
LoadKeepingWithoutRecord(s, table_name) ==
  LET columns == persistence_load_computed_columns(s.store, table_name)
  IN  IF should_recalculate(s.store) THEN [s EXCEPT !.computed_columns = <<>>]
      ELSE IF IsSome(columns) THEN [s EXCEPT !.computed_columns = Get(columns)]
      ELSE s

\* AppState::load_computed_columns.  loaded records what was taken from the store: the
\* table, the fingerprint its list was written under, the live fingerprint.
load_computed_columns(s, table_name) ==
  LET Of(columns) ==
        IF IsSome(columns)
          THEN [s EXCEPT !.computed_columns = Get(columns),
                         !.loaded = IF table_name \in DOMAIN Get(s.store).computed_columns
                                      THEN Some([table |-> table_name,
                                                 under |-> Get(s.store).saved_under[table_name],
                                                 live  |-> calculate_file_hash,
                                                 cols  |-> Len(Get(columns))])
                                      ELSE @]
          ELSE [s EXCEPT !.computed_columns = <<>>]
  IN  IF should_recalculate(s.store) THEN [s EXCEPT !.computed_columns = <<>>]
      ELSE Of(persistence_load_computed_columns(s.store, table_name))

\* AppState::apply_computed_columns on the state: an Err leaves the page as the loop
\* left it and is returned.
apply_computed_columns_in(s) ==
  LET Of(a) == IF a.ok THEN [s EXCEPT !.current_data = Some(a.data)]
               ELSE Fatal([s EXCEPT !.current_data = Some(a.data)], a.err)
  IN  IF ~IsSome(s.current_data) THEN s
      ELSE Of(apply_computed_columns(Get(s.current_data), s.computed_columns))

\* FetchCurrent that fetches the table whatever current_query is: the variant that C31
\* must tell from FetchCurrent.
FetchCurrentTable(s, env) ==
  get_table_data(source, current_table(s), s.data_offset, s.page_size, env.db_ok)

\* AppState::load_current_data, the call of the data source: the custom query when
\* there is one, else the table.
FetchCurrent(s, env) ==
  IF IsSome(s.current_query)
    THEN execute_custom_query(source, Get(s.current_query), current_table(s),
                              s.data_offset, s.page_size, env.db_ok)
    ELSE get_table_data(source, current_table(s), s.data_offset, s.page_size, env.db_ok)

\* AppState::load_current_data, from the result of the data source on: an Err is
\* returned; else the page is stored, the computed columns of the table are loaded
\* and applied, and the cursor's column is made valid.
StoreCurrent(s, result) ==
  LET Valid(s3) == IF s3.ctl # "run" THEN s3 ELSE ensure_valid_col_selection(s3)
  IN  IF ~result.ok THEN Fatal(Called(s, "load failed"), SourceError)
      ELSE Valid(apply_computed_columns_in(
                   load_computed_columns([Called(s, "load") EXCEPT
                                            !.current_data = Some(result.data)],
                                         current_table(s))))

\* AppState::load_current_data
load_current_data(s, env) == StoreCurrent(s, FetchCurrent(s, env))

\* AppState::save_computed_columns: TRUE when the record was written.
save_computed_columns(s, table_name, env) ==
  IF env.store_ok
    THEN [Called(s, "store") EXCEPT
            !.store = persistence_save_computed_columns(s.store, table_name, s.computed_columns)]
    ELSE Called(s, "store")

\* DataSource::export_table_to_csv and export_query_to_csv: the rows are read with the
\* statement as it is given (the query without the rewriting of execute_custom_query)
\* and written to the file.  TRUE when the export succeeds.
export_ok(s, env) ==
  /\ env.write_ok
  /\ IF source = "Sqlite"
       THEN /\ env.db_ok
            /\ IsSome(SqlEngine(IF IsSome(s.current_query) THEN Get(s.current_query)
                                ELSE StrSelectStar \o StrFrom \o current_table(s)))
       ELSE IF source = "Xlsx"
         THEN ~IsSome(s.current_query)
         ELSE TRUE

\* AppState::export_to_csv
export_to_csv(s, env) ==
  IF export_ok(s, env)
    THEN [Called(s, "export") EXCEPT !.status_message = Some("Exported {} rows to {}")]
    ELSE Fatal(Called(s, "export failed"),
               IF env.write_ok THEN SourceError ELSE WriteError)

\* AppState::save_changes and write_csv_data
save_changes(s, env) ==
  IF ~s.data_modified THEN [s EXCEPT !.status_message = Some("No changes to save")]
  ELSE IF ~IsSome(s.current_data) THEN s
  ELSE IF ~env.write_ok THEN Fatal(Called(s, "write_csv"), WriteError)
  ELSE [Called(s, "write_csv") EXCEPT
          !.data_modified = FALSE,
          !.status_message =
             Some(CASE source = "Csv"     -> "Changes saved to {}"
                    [] source = "Xlsx"    -> "Changes saved to {} (converted from Excel)"
                    [] source = "Sqlite"  -> "Changes exported to {} (SQLite direct save not supported)"
                    [] source = "Parquet" -> "Changes saved to {} (converted from Parquet)")]

-----------------------------------------------------------------------------
(* ui.rs: the key handlers, one operator per arm of each match.  Row and   *)
(* column indexes are the program's (from 0).                              *)

Rows(s) == Get(s.current_data).rows

Columns(s) == Get(s.current_data).columns

TotalRows(s) == Get(s.current_data).total_rows

\* data.rows[row][col]: inside the row, or a panic.
InRow(s, row, col) == col < Len(Rows(s)[row + 1])

CellAt(s, row, col) == Rows(s)[row + 1][col + 1]

SetCell(s, row, col, text) ==
  [s EXCEPT !.current_data = Some([Get(@) EXCEPT !.rows[row + 1][col + 1] = text])]

\* handle_table_navigation, Up and Down
TableMove(s, env, delta) ==
  IF (delta = -1 /\ s.selected_table_idx > 0)
     \/ (delta = 1 /\ s.selected_table_idx < SatSub(Len(Tables), 1))
    THEN load_current_data(
           reset_data_view([s EXCEPT !.selected_table_idx = @ + delta]), env)
    ELSE s

\* handle_table_navigation, Right and Enter
TableEnter(s) ==
  [s EXCEPT !.navigation_mode = "Data", !.data_offset = 0, !.selected_row_idx = 0]

\* The h key of Table and Data mode
ToggleHelp(s) == [s EXCEPT !.show_help = ~@]

\* handle_data_navigation, Up
DataUp(s, env) ==
  LET Clamp(s1) == IF s1.ctl # "run" THEN s1
                   ELSE IF IsSome(s1.current_data) /\ s1.selected_row_idx >= Len(Rows(s1))
                     THEN [s1 EXCEPT !.selected_row_idx = SatSub(Len(Rows(s1)), 1)]
                     ELSE s1
  IN  IF s.selected_row_idx > 0 THEN [s EXCEPT !.selected_row_idx = @ - 1]
      ELSE IF s.data_offset > 0
        THEN Clamp(load_current_data([s EXCEPT !.data_offset = SatSub(@, s.page_size),
                                               !.selected_row_idx = s.page_size - 1], env))
      ELSE s

\* DataDown with the test for a further page off by one (<= for <): the variant that
\* C4 must tell from DataDown.
DataDownPastEnd(s, env) ==
  IF ~IsSome(s.current_data) THEN s
  ELSE IF s.selected_row_idx < SatSub(Len(Rows(s)), 1)
    THEN [s EXCEPT !.selected_row_idx = @ + 1]
  ELSE IF s.data_offset + Len(Rows(s)) <= TotalRows(s)
    THEN load_current_data([s EXCEPT !.data_offset = @ + s.page_size,
                                     !.selected_row_idx = 0], env)
  ELSE s

\* handle_data_navigation, Down
DataDown(s, env) ==
  IF ~IsSome(s.current_data) THEN s
  ELSE IF s.selected_row_idx < SatSub(Len(Rows(s)), 1)
    THEN [s EXCEPT !.selected_row_idx = @ + 1]
  ELSE IF s.data_offset + Len(Rows(s)) < TotalRows(s)
    THEN load_current_data([s EXCEPT !.data_offset = @ + s.page_size,
                                     !.selected_row_idx = 0], env)
  ELSE s

\* handle_data_navigation, Left
DataLeft(s, env) ==
  IF IsSome(s.current_data) /\ s.selected_col_idx > min_col(Get(s.current_data))
    THEN [s EXCEPT !.selected_col_idx = @ - 1]
    ELSE load_current_data(reset_data_view([s EXCEPT !.navigation_mode = "Table"]), env)

\* handle_data_navigation, Right
DataRight(s) ==
  IF IsSome(s.current_data) /\ s.selected_col_idx < SatSub(Len(Columns(s)), 1)
    THEN [s EXCEPT !.selected_col_idx = @ + 1]
    ELSE s

\* handle_data_navigation, PageUp
DataPageUp(s, env) ==
  IF s.data_offset > 0
    THEN load_current_data([s EXCEPT !.data_offset = SatSub(@, s.page_size),
                                     !.selected_row_idx = 0], env)
    ELSE s

\* handle_data_navigation, PageDown
DataPageDown(s, env) ==
  IF IsSome(s.current_data) /\ s.data_offset + Len(Rows(s)) < TotalRows(s)
    THEN load_current_data([s EXCEPT !.data_offset = @ + s.page_size,
                                     !.selected_row_idx = 0], env)
    ELSE s

\* handle_data_navigation, Home
DataHome(s, env) ==
  load_current_data([s EXCEPT !.data_offset = 0, !.selected_row_idx = 0], env)

\* handle_data_navigation, End
DataEnd(s, env) ==
  IF IsSome(s.current_data)
    THEN load_current_data([s EXCEPT !.data_offset = SatSub(TotalRows(s), s.page_size),
                                     !.selected_row_idx = 0], env)
    ELSE s

\* DataSpace without the test of the rowid column: the variant that C23 must tell from
\* DataSpace.
DataSpaceAnyColumn(s) ==
  IF /\ IsSome(s.current_data)
     /\ s.selected_row_idx < Len(Rows(s))
     /\ s.selected_col_idx < Len(Columns(s))
    THEN [s EXCEPT !.navigation_mode = "Edit",
                   !.editing_cell = Some(<<s.selected_row_idx, s.selected_col_idx>>),
                   !.edit_input = CellAt(s, s.selected_row_idx, s.selected_col_idx)]
    ELSE s

\* handle_data_navigation, Space
DataSpace(s) ==
  IF /\ IsSome(s.current_data)
     /\ s.selected_row_idx < Len(Rows(s))
     /\ s.selected_col_idx < Len(Columns(s))
    THEN IF min_col(Get(s.current_data)) = 1 /\ s.selected_col_idx = 0
           THEN show_error(s, Msg("Cannot edit rowid column", NoErr))
         ELSE IF ~InRow(s, s.selected_row_idx, s.selected_col_idx) THEN Panic(s)
         ELSE [s EXCEPT !.navigation_mode = "Edit",
                        !.editing_cell = Some(<<s.selected_row_idx, s.selected_col_idx>>),
                        !.edit_input = CellAt(s, s.selected_row_idx, s.selected_col_idx)]
    ELSE s

\* The new row of n and Ctrl+n: one empty cell per column.
PushNewRow(s) ==
  LET new_row == [i \in 1..Len(Columns(s)) |-> <<>>]
      data    == [Get(s.current_data) EXCEPT !.rows = Append(@, new_row),
                                             !.total_rows = @ + 1]
  IN  [s EXCEPT !.current_data = Some(data),
                !.data_modified = TRUE,
                !.selected_row_idx = Len(data.rows) - 1,
                !.selected_col_idx = min_col(data),
                !.status_message = Some("New row added")]

\* handle_data_navigation, n
DataNewRow(s) == IF IsSome(s.current_data) THEN PushNewRow(s) ELSE s

\* handle_data_navigation, i
DataQueryMode(s) == [s EXCEPT !.navigation_mode = "Query", !.query_input = <<>>]

\* handle_data_navigation, =
DataComputedColumnMode(s) ==
  [s EXCEPT !.navigation_mode = "ComputedColumn", !.computed_column_input = <<>>]

\* DataSave without the test of the custom query: the variant that C25 must tell from
\* DataSave.
DataSaveAlways(s, env) == save_changes(s, env)

\* handle_data_navigation, s
DataSave(s, env) ==
  IF IsSome(s.current_query)
    THEN show_error(s, Msg("Cannot save custom query results. Press 'r' to reload table data first.",
                           NoErr))
    ELSE save_changes(s, env)

\* handle_data_navigation, r
DataReload(s, env) == load_current_data([s EXCEPT !.current_query = None], env)

\* handle_data_navigation, Enter
DataEnter(s) ==
  IF IsSome(s.current_data) /\ s.selected_row_idx < Len(Rows(s))
    THEN [s EXCEPT !.detailed_view_row = Some(s.selected_row_idx),
                   !.detailed_view_selected_field = 0,
                   !.navigation_mode = "DetailedView"]
    ELSE s

\* return Ok(false): Ctrl+q and Ctrl+c
Quit(s) == [s EXCEPT !.ctl = "quit"]

\* handle_query_input, Esc
QueryEsc(s) == [s EXCEPT !.navigation_mode = "Data", !.query_input = <<>>]

\* handle_query_input, Enter
QueryEnter(s, env) ==
  LET Of(result) ==
        IF result.ok
          THEN [Called(s, "query") EXCEPT
                  !.current_query = Some(s.query_input),
                  !.current_data = Some(result.data),
                  !.selected_row_idx = 0,
                  !.data_offset = 0,
                  !.status_message = Some("Query executed successfully")]
          ELSE show_error(Called(s, "query"), Msg("Query error: {}", SourceError))
      Leave(s1) == [s1 EXCEPT !.navigation_mode = "Data", !.query_input = <<>>]
  IN  Leave(IF Len(Trim(s.query_input)) = 0 THEN s
            ELSE IF ~supports_custom_queries(source)
              THEN [s EXCEPT !.status_message =
                               Some("Custom queries not supported for this file type")]
            ELSE Of(execute_custom_query(source, s.query_input, current_table(s), 0,
                                         s.page_size, env.db_ok)))

\* handle_query_input, Backspace
QueryBackspace(s) == [s EXCEPT !.query_input = Pop(@)]

\* handle_query_input, Char(c)
QueryChar(s, c) == [s EXCEPT !.query_input = Append(@, c)]

\* SaveEdit writing into the row under the cursor's column of the first row instead of
\* the row that is edited: the variant that C8 must tell from SaveEdit.
SaveEditFirstRow(s, report) ==
  IF IsSome(s.editing_cell) /\ IsSome(s.current_data)
    THEN LET row_idx == Get(s.editing_cell)[1]
             col_idx == Get(s.editing_cell)[2]
         IN  IF row_idx < Len(Rows(s)) /\ col_idx < Len(Columns(s))
               THEN IF min_col(Get(s.current_data)) = 1 /\ col_idx = 0
                      THEN IF report
                             THEN show_error(s, Msg("Cannot edit rowid column", NoErr))
                             ELSE s
                    ELSE IF ~InRow(s, 0, col_idx) THEN Panic(s)
                    ELSE [SetCell(s, 0, col_idx, s.edit_input) EXCEPT
                            !.data_modified = TRUE,
                            !.status_message = IF report THEN Some("Cell updated (not saved)")
                                               ELSE @]
               ELSE s
    ELSE s

\* The first half of the Enter and Tab arms of handle_edit_mode and of
\* save_current_edit_and_move_to: the text is written into the cell that is edited.
\* report: whether an edit of the rowid column is reported (Enter) or skipped.
SaveEdit(s, report) ==
  IF IsSome(s.editing_cell) /\ IsSome(s.current_data)
    THEN LET row_idx == Get(s.editing_cell)[1]
             col_idx == Get(s.editing_cell)[2]
         IN  IF row_idx < Len(Rows(s)) /\ col_idx < Len(Columns(s))
               THEN IF min_col(Get(s.current_data)) = 1 /\ col_idx = 0
                      THEN IF report
                             THEN show_error(s, Msg("Cannot edit rowid column", NoErr))
                             ELSE s
                    ELSE IF ~InRow(s, row_idx, col_idx) THEN Panic(s)
                    ELSE [SetCell(s, row_idx, col_idx, s.edit_input) EXCEPT
                            !.data_modified = TRUE,
                            !.status_message = IF report THEN Some("Cell updated (not saved)")
                                               ELSE @]
               ELSE s
    ELSE s

\* AppState::refresh_computed_columns on the state
refresh_computed_columns_in(s) ==
  LET Of(r) == IF r.panic
                 THEN [ok |-> FALSE, err |-> NoErr,
                       s |-> Panic([s EXCEPT !.current_data = Some(r.data)])]
                 ELSE [ok |-> r.ok, err |-> r.err,
                       s |-> [s EXCEPT !.current_data = Some(r.data)]]
  IN  IF ~IsSome(s.current_data) THEN [ok |-> TRUE, err |-> NoErr, s |-> s]
      ELSE Of(refresh_computed_columns(Get(s.current_data), s.computed_columns))

\* EditEsc that leaves the mode and keeps the edited cell: the variant that C38 must
\* tell from EditEsc.
EditEscKeepingCell(s) == [s EXCEPT !.navigation_mode = "Data", !.edit_input = <<>>]

\* handle_edit_mode, Esc
EditEsc(s) ==
  [s EXCEPT !.navigation_mode = "Data", !.editing_cell = None, !.edit_input = <<>>]

\* handle_edit_mode, Enter, after the text is written into the cell: the mode is
\* left and the computed columns are refreshed; an Err of the refresh is shown.
LeaveEdit(s1) ==
  LET Shown(r) == IF r.s.ctl # "run" \/ r.ok THEN r.s
                  ELSE show_error(r.s, Msg("Failed to update computed columns: {}", r.err))
  IN  IF s1.ctl # "run" THEN s1
      ELSE Shown(refresh_computed_columns_in(
                   [s1 EXCEPT !.navigation_mode = "Data", !.editing_cell = None,
                              !.edit_input = <<>>]))

\* handle_edit_mode, Enter
EditEnter(s) == LeaveEdit(SaveEdit(s, TRUE))

\* handle_edit_mode, Backspace
EditBackspace(s) == [s EXCEPT !.edit_input = Pop(@), !.typed = @ + 1]

\* handle_edit_mode, Char(c)
EditChar(s, c) == [s EXCEPT !.edit_input = Append(@, c), !.typed = @ + 1]

\* handle_edit_mode, Ctrl+n
EditNewRow(s) ==
  LET Of(s1) == [s1 EXCEPT !.editing_cell = Some(<<s1.selected_row_idx, s1.selected_col_idx>>),
                           !.edit_input = <<>>]
  IN  IF IsSome(s.current_data) THEN Of(PushNewRow(s)) ELSE s

\* handle_edit_mode, Tab
EditTab(s) ==
  LET row_idx == Get(s.editing_cell)[1]
      col_idx == Get(s.editing_cell)[2]
      Of(s1) ==
        LET m == min_col(Get(s1.current_data))
        IN  IF s1.ctl # "run" THEN s1
            ELSE IF ~(IsSome(s.editing_cell) /\ IsSome(s.current_data)) THEN s1
            ELSE IF ~(row_idx < Len(Rows(s)) /\ col_idx < Len(Columns(s))) THEN s1
            ELSE IF col_idx < Len(Columns(s1)) - 1
              THEN IF ~InRow(s1, row_idx, col_idx + 1) THEN Panic(s1)
                   ELSE [s1 EXCEPT !.selected_col_idx = @ + 1,
                                   !.editing_cell = Some(<<row_idx, col_idx + 1>>),
                                   !.edit_input = CellAt(s1, row_idx, col_idx + 1)]
            ELSE IF row_idx < Len(Rows(s1)) - 1
              THEN IF ~InRow(s1, row_idx + 1, m) THEN Panic(s1)
                   ELSE [s1 EXCEPT !.selected_row_idx = @ + 1,
                                   !.selected_col_idx = m,
                                   !.editing_cell = Some(<<row_idx + 1, m>>),
                                   !.edit_input = CellAt(s1, row_idx + 1, m)]
            ELSE [s1 EXCEPT !.navigation_mode = "Data", !.editing_cell = None,
                            !.edit_input = <<>>]
  IN  Of(SaveEdit(s, FALSE))

\* save_current_edit_and_move_to, the arm Up of the match on direction: the state
\* after it and new_row.
MoveUp(s1, env) ==
  LET Clamp(l) == [s |-> l,
                   row |-> IF l.ctl = "run" /\ IsSome(l.current_data)
                              /\ s1.page_size - 1 >= Len(Rows(l))
                             THEN SatSub(Len(Rows(l)), 1)
                             ELSE s1.page_size - 1]
  IN  IF s1.selected_row_idx > 0 THEN [s |-> s1, row |-> s1.selected_row_idx - 1]
      ELSE IF s1.data_offset > 0
        THEN Clamp(load_current_data([s1 EXCEPT !.data_offset = SatSub(@, s1.page_size)], env))
      ELSE [s |-> s1, row |-> s1.selected_row_idx]

\* save_current_edit_and_move_to, the arm Down.
MoveDown(s1, env) ==
  IF s1.selected_row_idx < SatSub(Len(Rows(s1)), 1)
    THEN [s |-> s1, row |-> s1.selected_row_idx + 1]
  ELSE IF s1.data_offset + Len(Rows(s1)) < TotalRows(s1)
    THEN [s |-> load_current_data([s1 EXCEPT !.data_offset = @ + s1.page_size], env),
          row |-> 0]
  ELSE [s |-> s1, row |-> s1.selected_row_idx]

\* save_current_edit_and_move_to, the match on direction: the state after it and
\* (new_row, new_col).
MoveTo(s1, direction, env) ==
  LET row == s1.selected_row_idx
      col == s1.selected_col_idx
  IN  CASE direction = "Up"    -> MoveUp(s1, env) @@ [col |-> col]
        [] direction = "Down"  -> MoveDown(s1, env) @@ [col |-> col]
        [] direction = "Left"  ->
             [s |-> s1, row |-> row,
              col |-> IF col > min_col(Get(s1.current_data)) THEN col - 1 ELSE col]
        [] direction = "Right" ->
             [s |-> s1, row |-> row,
              col |-> IF col < SatSub(Len(Columns(s1)), 1) THEN col + 1 ELSE col]

\* save_current_edit_and_move_to, after the match: the cursor and the cell that is
\* edited move, and the text of the new cell is taken.
EditAt(moved) ==
  LET Of(s2) == IF IsSome(s2.current_data) /\ moved.row < Len(Rows(s2))
                   /\ moved.col < Len(Columns(s2))
                  THEN IF ~InRow(s2, moved.row, moved.col) THEN Panic(s2)
                       ELSE [s2 EXCEPT !.edit_input = CellAt(s2, moved.row, moved.col)]
                  ELSE s2
  IN  IF moved.s.ctl # "run" THEN moved.s
      ELSE Of([moved.s EXCEPT !.selected_row_idx = moved.row,
                              !.selected_col_idx = moved.col,
                              !.editing_cell = Some(<<moved.row, moved.col>>)])

\* save_current_edit_and_move_to, after the text is written into the cell.
MoveFrom(s1, direction, env) ==
  IF s1.ctl # "run" \/ ~IsSome(s1.current_data) THEN s1
  ELSE EditAt(MoveTo(s1, direction, env))

\* save_current_edit_and_move_to: the arrow keys of Edit mode
save_current_edit_and_move_to(s, direction, env) ==
  MoveFrom(SaveEdit(s, FALSE), direction, env)

\* handle_detailed_view, Esc
DetailEsc(s) ==
  [s EXCEPT !.navigation_mode = "Data", !.detailed_view_row = None,
            !.detailed_view_selected_field = 0]

\* handle_detailed_view, Up
DetailUp(s) ==
  IF IsSome(s.current_data) /\ s.detailed_view_selected_field > 0
    THEN [s EXCEPT !.detailed_view_selected_field = @ - 1]
    ELSE s

\* handle_detailed_view, Down
DetailDown(s) ==
  IF IsSome(s.current_data)
     /\ s.detailed_view_selected_field < SatSub(Len(Columns(s)), 1)
    THEN [s EXCEPT !.detailed_view_selected_field = @ + 1]
    ELSE s

\* The outcomes of the system clipboard for one copy.
ClipOutcomes == {"ok", "new_fails", "set_text_fails"}

\* AppState::copy_to_clipboard
copy_to_clipboard(s, text, clip) ==
  LET s0 == Called(s, "clipboard")
  IN  IF ~IsSome(s.clipboard) /\ clip = "new_fails" THEN [ok |-> FALSE, s |-> s0]
      ELSE IF clip = "set_text_fails"
        THEN [ok |-> FALSE, s |-> [s0 EXCEPT !.clipboard = Some("Clipboard")]]
      ELSE [ok |-> TRUE, s |-> [s0 EXCEPT !.clipboard = Some("Clipboard"),
                                          !.clipboard_text = text]]

\* handle_detailed_view, c without Ctrl
DetailCopy(s, clip) ==
  IF /\ IsSome(s.detailed_view_row)
     /\ IsSome(s.current_data)
     /\ Get(s.detailed_view_row) < Len(Rows(s))
     /\ s.detailed_view_selected_field < Len(Columns(s))
    THEN IF ~InRow(s, Get(s.detailed_view_row), s.detailed_view_selected_field)
           THEN Panic(s)
           ELSE LET r == copy_to_clipboard(
                           s, CellAt(s, Get(s.detailed_view_row),
                                     s.detailed_view_selected_field), clip)
                IN  IF r.ok THEN [r.s EXCEPT !.status_message = Some("Copied to clipboard")]
                    ELSE show_error(r.s, Msg("Failed to copy to clipboard: {}",
                                             ClipboardError))
    ELSE s

\* ErrorEsc returning to Data mode whatever the remembered mode is: the variant that
\* C13 must tell from ErrorEsc.
ErrorEscToData(s) ==
  [s EXCEPT !.navigation_mode = "Data", !.error_message = None]

\* handle_error_display, Esc
ErrorEsc(s) ==
  [s EXCEPT !.navigation_mode = s.previous_navigation_mode, !.error_message = None]

\* handle_computed_column_input, Esc
ComputedEsc(s) == [s EXCEPT !.navigation_mode = "Data", !.computed_column_input = <<>>]

\* handle_computed_column_input, Enter, from the result r of
\* parse_and_add_computed_column on: an Err is shown; else the columns are applied
\* and the list is saved.
ApplyAdded(s, r, env) ==
  LET Saved(s1) ==
        IF s1.ctl # "run" THEN s1
        ELSE [save_computed_columns(s1, current_table(s), env) EXCEPT
                !.status_message =
                   IF env.store_ok THEN Some("Computed column added and saved")
                   ELSE Some("Column added but save failed: {}")]
  IN  IF ~r.ok THEN show_error(s, Msg("Expression error: {}", r.err))
      ELSE Saved(apply_computed_columns_in([s EXCEPT !.computed_columns = r.cols]))

\* handle_computed_column_input, Enter
ComputedEnter(s, env) ==
  LET Leave(s3) == IF s3.ctl # "run" THEN s3
                   ELSE [s3 EXCEPT !.navigation_mode = "Data", !.computed_column_input = <<>>]
  IN  Leave(IF Len(Trim(s.computed_column_input)) = 0 THEN s
            ELSE ApplyAdded(s, parse_and_add_computed_column(s.current_data,
                                                             s.computed_columns,
                                                             s.computed_column_input), env))

\* handle_computed_column_input, Backspace
ComputedBackspace(s) == [s EXCEPT !.computed_column_input = Pop(@)]

\* handle_computed_column_input, Char(c)
ComputedChar(s, c) == [s EXCEPT !.computed_column_input = Append(@, c)]

\* run_app, before handle_key_event: the status message is cleared.  key, io and
\* loaded describe one key event and start empty.
BeforeKey(s, name) ==
  [s EXCEPT !.status_message = None, !.key = name, !.io = <<>>, !.loaded = None]

\* run_app, after handle_key_event returned Ok(true): the page is loaded when Data
\* mode has none.
AfterKey(s, env) ==
  IF s.ctl = "run" /\ s.navigation_mode = "Data" /\ ~IsSome(s.current_data)
    THEN load_current_data(s, env)
    ELSE s

-----------------------------------------------------------------------------
(* The event loop of main.rs as a state machine: one action per key of     *)
(* each mode.  The texts typed into the query line and the computed-column *)
(* line are prefixes of the texts below; the characters typed into a cell  *)
(* are counted.                                                            *)

QueryTexts == {StrSelectStar, StrSelectA}

ComputedTexts ==
  { <<"A", "/", "B">>, <<"s", "u", "m", "(", "A", ")">>, <<"A", "=", "1">> }

EditChars == {"0"}

IsPrefix(p, t) == Len(p) <= Len(t) /\ SubSeq(t, 1, Len(p)) = p

\* The characters that keep text a prefix of one of texts.
NextChars(text, texts) ==
  {t[Len(text) + 1] : t \in {u \in texts : IsPrefix(text, u) /\ Len(u) > Len(text)}}

\* The state AppState::new builds (ui.rs 79-110), before main loads the first page.
New ==
  [ctl |-> "run", fatal_error |-> NoErr, store |-> None,
   selected_table_idx |-> 0, selected_row_idx |-> 0, selected_col_idx |-> 0,
   navigation_mode |-> "Table", previous_navigation_mode |-> "Data",
   current_query |-> None, query_input |-> <<>>,
   data_offset |-> 0, page_size |-> PageSize, current_data |-> None,
   status_message |-> None, error_message |-> None, show_help |-> FALSE,
   edit_input |-> <<>>, editing_cell |-> None, data_modified |-> FALSE,
   detailed_view_row |-> None, detailed_view_selected_field |-> 0,
   clipboard |-> None, clipboard_text |-> <<>>,
   computed_column_input |-> <<>>, computed_columns |-> <<>>,
   key |-> "", io |-> <<>>, loaded |-> None, typed |-> 0]

\* The variables hold s.
Holds(s) ==
  /\ app = (IF s.ctl = "run" THEN "running" ELSE s.ctl)
  /\ fatal_error = s.fatal_error
  /\ store = s.store
  /\ selected_table_idx = s.selected_table_idx
  /\ selected_row_idx = s.selected_row_idx
  /\ selected_col_idx = s.selected_col_idx
  /\ navigation_mode = s.navigation_mode
  /\ previous_navigation_mode = s.previous_navigation_mode
  /\ current_query = s.current_query
  /\ query_input = s.query_input
  /\ data_offset = s.data_offset
  /\ page_size = s.page_size
  /\ current_data = s.current_data
  /\ status_message = s.status_message
  /\ error_message = s.error_message
  /\ show_help = s.show_help
  /\ edit_input = s.edit_input
  /\ editing_cell = s.editing_cell
  /\ data_modified = s.data_modified
  /\ detailed_view_row = s.detailed_view_row
  /\ detailed_view_selected_field = s.detailed_view_selected_field
  /\ clipboard = s.clipboard
  /\ clipboard_text = s.clipboard_text
  /\ computed_column_input = s.computed_column_input
  /\ computed_columns = s.computed_columns
  /\ key = s.key
  /\ io = s.io
  /\ loaded = s.loaded
  /\ typed = s.typed

\* The expression engine and the data-access layer are not exercised on their own.
EvIdle == ev_in = <<>> /\ ev_expr = <<>> /\ ev_result = Ok(<<>>)

FetchIdle == f_req = <<>> /\ f_result = Failed

NoCall == [op |-> "", table |-> <<>>, loaded |-> None, stale |-> FALSE]

PersistIdle == p_call = NoCall /\ p_fresh = EmptyMap

\* main (main.rs 34-88): the file is opened, the state built, the first page loaded;
\* the loop starts when that succeeds.
InitOf(sources) ==
  /\ source \in sources
  /\ file_metadata = [len |-> 1, modified |-> 0]
  /\ now = 0
  /\ Holds(load_current_data(New, AllOk))
  /\ EvIdle
  /\ FetchIdle
  /\ PersistIdle

Init == InitOf(Sources)

\* One iteration of run_app with the key event name, which handle_key_event gives to
\* the arm H of the handler of mode.
Key(name, mode, H(_, _), envs) ==
  /\ app = "running"
  /\ navigation_mode = mode
  /\ \E env \in envs : Becomes(AfterKey(H(BeforeKey(S, name), env), env))

\* The Esc arm of a mode is reached when the help screen is closed.
EscKey(mode, H(_, _)) == ~show_help /\ Key("Esc", mode, H, NoEnv)

\* handle_key_event, lines 122-125: Esc closes the help screen in any mode.
HelpEsc ==
  /\ app = "running"
  /\ show_help
  /\ Becomes([BeforeKey(S, "Esc") EXCEPT !.show_help = FALSE])

\* A key the mode has no arm for (F1).
IgnoredKey == app = "running" /\ Becomes(BeforeKey(S, "F1"))

\* Ctrl+q and Ctrl+c, in the modes that have the arm.
QuitKey ==
  /\ navigation_mode \in {"Table", "Data", "DetailedView", "ErrorDisplay"}
  /\ Key("Ctrl+q", navigation_mode, LAMBDA s, env : Quit(s), NoEnv)

TableUpKey == Key("Up", "Table", LAMBDA s, env : TableMove(s, env, -1), LoadEnvs)

TableDownKey == Key("Down", "Table", LAMBDA s, env : TableMove(s, env, 1), LoadEnvs)

TableEnterKey == Key("Enter", "Table", LAMBDA s, env : TableEnter(s), NoEnv)

HelpKey ==
  /\ navigation_mode \in {"Table", "Data"}
  /\ Key("h", navigation_mode, LAMBDA s, env : ToggleHelp(s), NoEnv)

DataUpKey == Key("Up", "Data", DataUp, LoadEnvs)

DataDownKey == Key("Down", "Data", DataDown, LoadEnvs)

DataLeftKey == Key("Left", "Data", DataLeft, LoadEnvs)

DataRightKey == Key("Right", "Data", LAMBDA s, env : DataRight(s), NoEnv)

DataPageUpKey == Key("PageUp", "Data", DataPageUp, LoadEnvs)

DataPageDownKey == Key("PageDown", "Data", DataPageDown, LoadEnvs)

DataHomeKey == Key("Home", "Data", DataHome, LoadEnvs)

DataEndKey == Key("End", "Data", DataEnd, LoadEnvs)

DataSpaceKey == Key("Space", "Data", LAMBDA s, env : DataSpace(s), NoEnv)

DataNewRowKey ==
  /\ IsSome(current_data) => Len(Get(current_data).rows) < MaxRows
  /\ Key("n", "Data", LAMBDA s, env : DataNewRow(s), NoEnv)

DataQueryKey == Key("i", "Data", LAMBDA s, env : DataQueryMode(s), NoEnv)

DataComputedKey ==
  /\ Len(computed_columns) < MaxComputed
  /\ Key("=", "Data", LAMBDA s, env : DataComputedColumnMode(s), NoEnv)

DataExportKey == Key("e", "Data", export_to_csv, ExportEnvs)

DataSaveKey == Key("s", "Data", DataSave, WriteEnvs)

DataReloadKey == Key("r", "Data", DataReload, LoadEnvs)

DataEnterKey == Key("Enter", "Data", LAMBDA s, env : DataEnter(s), NoEnv)

QueryEscKey == EscKey("Query", LAMBDA s, env : QueryEsc(s))

QueryEnterKey == Key("Enter", "Query", QueryEnter, LoadEnvs)

QueryBackspaceKey == Key("Backspace", "Query", LAMBDA s, env : QueryBackspace(s), NoEnv)

QueryCharKey ==
  \E c \in NextChars(query_input, QueryTexts) :
    Key("Char", "Query", LAMBDA s, env : QueryChar(s, c), NoEnv)

\* The queries typed where the page they give matters: also one that selects no row.
RowidQueryTexts == QueryTexts \cup {StrSelectStar \o StrFrom \o <<"x">> \o StrWhere0}

RowidQueryCharKey ==
  \E c \in NextChars(query_input, RowidQueryTexts) :
    Key("Char", "Query", LAMBDA s, env : QueryChar(s, c), NoEnv)

EditEscKey == EscKey("Edit", LAMBDA s, env : EditEsc(s))

EditEnterKey == Key("Enter", "Edit", LAMBDA s, env : EditEnter(s), NoEnv)

EditArrowKey ==
  \E direction \in {"Up", "Down", "Left", "Right"} :
    Key(direction, "Edit",
        LAMBDA s, env : save_current_edit_and_move_to(s, direction, env), LoadEnvs)

EditBackspaceKey ==
  /\ typed < MaxTyped
  /\ Key("Backspace", "Edit", LAMBDA s, env : EditBackspace(s), NoEnv)

EditCharKey ==
  /\ typed < MaxTyped
  /\ \E c \in EditChars : Key("Char", "Edit", LAMBDA s, env : EditChar(s, c), NoEnv)

EditNewRowKey ==
  /\ IsSome(current_data) => Len(Get(current_data).rows) < MaxRows
  /\ Key("Ctrl+n", "Edit", LAMBDA s, env : EditNewRow(s), NoEnv)

EditTabKey == Key("Tab", "Edit", LAMBDA s, env : EditTab(s), NoEnv)

DetailEscKey == EscKey("DetailedView", LAMBDA s, env : DetailEsc(s))

DetailUpKey == Key("Up", "DetailedView", LAMBDA s, env : DetailUp(s), NoEnv)

DetailDownKey == Key("Down", "DetailedView", LAMBDA s, env : DetailDown(s), NoEnv)

DetailCopyKey ==
  \E clip \in ClipOutcomes :
    Key("c", "DetailedView", LAMBDA s, env : DetailCopy(s, clip), NoEnv)

ErrorEscKey == EscKey("ErrorDisplay", LAMBDA s, env : ErrorEsc(s))

ComputedEscKey == EscKey("ComputedColumn", LAMBDA s, env : ComputedEsc(s))

ComputedEnterKey == Key("Enter", "ComputedColumn", ComputedEnter, StoreEnvs)

ComputedBackspaceKey ==
  Key("Backspace", "ComputedColumn", LAMBDA s, env : ComputedBackspace(s), NoEnv)

ComputedCharKey ==
  \E c \in NextChars(computed_column_input, ComputedTexts) :
    Key("Char", "ComputedColumn", LAMBDA s, env : ComputedChar(s, c), NoEnv)

\* The most computed columns defined one after the other where definitions are
\* repeated.
MaxRepeated == 2

\* The definitions typed where they are submitted more than once.
RepeatTexts == { <<"s", "u", "m", "(", "A", ")">>, <<"1">> }

DataComputedAgainKey ==
  /\ Len(computed_columns) < MaxRepeated
  /\ Key("=", "Data", LAMBDA s, env : DataComputedColumnMode(s), NoEnv)

RepeatComputedCharKey ==
  \E c \in NextChars(computed_column_input, RepeatTexts) :
    Key("Char", "ComputedColumn", LAMBDA s, env : ComputedChar(s, c), NoEnv)

\* The most quit chords pressed into one input buffer.
MaxChords == 1

\* The number of characters c in text.
Count(text, c) == Len(SelectSeq(text, LAMBDA x : x = c))

\* Ctrl+q (and Ctrl+c) in Query mode: handle_query_input has no arm for the chord,
\* the key is a Char(c) and takes the arm that pushes c onto the buffer.
QueryChordKey ==
  /\ Count(query_input, "q") < MaxChords
  /\ Key("Ctrl+q", "Query", LAMBDA s, env : QueryChar(s, "q"), NoEnv)

\* Ctrl+q in Edit mode: the Char(c) arm of handle_edit_mode.
EditChordKey ==
  /\ typed < MaxTyped
  /\ Key("Ctrl+q", "Edit", LAMBDA s, env : EditChar(s, "q"), NoEnv)

\* Ctrl+q in ComputedColumn mode: the Char(c) arm of handle_computed_column_input.
ComputedChordKey ==
  /\ Count(computed_column_input, "q") < MaxChords
  /\ Key("Ctrl+q", "ComputedColumn", LAMBDA s, env : ComputedChar(s, "q"), NoEnv)

\* The source file is written by another program: its size is what that program
\* leaves and its modification time is the time of the write.
FileChange ==
  /\ app = "running"
  /\ \E len \in 1..MaxFileLen :
       /\ [len |-> len, modified |-> now] # file_metadata
       /\ file_metadata' = [len |-> len, modified |-> now]
  /\ p_fresh' = EmptyMap
  /\ UNCHANGED <<source, now, store, app, fatal_error, appVars, key, io, loaded, typed,
                 evVars, fetchVars, p_call>>

\* Time passes.
Tick ==
  /\ app = "running"
  /\ now < MaxNow
  /\ now' = now + 1
  /\ UNCHANGED <<source, file_metadata, store, app, fatal_error, appVars, key, io, loaded,
                 typed, evVars, fetchVars, persistVars>>

\* Every key of every mode, and the file changing under the program.
Next ==
  \/ HelpEsc \/ IgnoredKey \/ QuitKey \/ HelpKey
  \/ TableUpKey \/ TableDownKey \/ TableEnterKey
  \/ DataUpKey \/ DataDownKey \/ DataLeftKey \/ DataRightKey
  \/ DataPageUpKey \/ DataPageDownKey \/ DataHomeKey \/ DataEndKey
  \/ DataSpaceKey \/ DataNewRowKey \/ DataQueryKey \/ DataComputedKey
  \/ DataExportKey \/ DataSaveKey \/ DataReloadKey \/ DataEnterKey
  \/ QueryEscKey \/ QueryEnterKey \/ QueryBackspaceKey \/ QueryCharKey
  \/ EditEscKey \/ EditEnterKey \/ EditArrowKey \/ EditBackspaceKey \/ EditCharKey
  \/ EditNewRowKey \/ EditTabKey
  \/ DetailEscKey \/ DetailUpKey \/ DetailDownKey \/ DetailCopyKey
  \/ ErrorEscKey
  \/ ComputedEscKey \/ ComputedEnterKey \/ ComputedBackspaceKey \/ ComputedCharKey
  \/ QueryChordKey \/ EditChordKey \/ ComputedChordKey
  \/ FileChange \/ Tick
  \/ RowidQueryCharKey
  \/ DataComputedAgainKey \/ RepeatComputedCharKey

Spec == Init /\ [][Next]_vars

\* The state space of Spec is the product of what every key can do.  The
\* specifications below are the same program with the user keeping to some of the
\* keys; every state they reach is a state of Spec.

\* Browsing: tables, rows, pages, new rows, custom queries, export and save.
NextNav ==
  \/ IgnoredKey \/ QuitKey
  \/ TableUpKey \/ TableDownKey \/ TableEnterKey
  \/ DataUpKey \/ DataDownKey \/ DataLeftKey \/ DataRightKey
  \/ DataPageUpKey \/ DataPageDownKey \/ DataHomeKey \/ DataEndKey
  \/ DataNewRowKey \/ DataQueryKey
  \/ DataExportKey \/ DataSaveKey \/ DataReloadKey
  \/ QueryEscKey \/ QueryEnterKey \/ QueryBackspaceKey \/ QueryCharKey
  \/ ErrorEscKey

SpecNav == Init /\ [][NextNav]_vars

\* Editing the cells of a table that has computed columns.
NextEdit ==
  \/ TableEnterKey
  \/ DataUpKey \/ DataDownKey \/ DataLeftKey \/ DataRightKey
  \/ DataSpaceKey \/ DataComputedKey
  \/ EditEscKey \/ EditEnterKey \/ EditArrowKey \/ EditBackspaceKey \/ EditCharKey
  \/ EditNewRowKey \/ EditTabKey
  \/ ErrorEscKey
  \/ ComputedEscKey \/ ComputedEnterKey \/ ComputedBackspaceKey \/ ComputedCharKey

SpecEdit == InitOf({"Sqlite", "Csv"}) /\ [][NextEdit]_vars

\* Computed columns of the tables of a file that changes on disk.
NextStore ==
  \/ TableUpKey \/ TableDownKey \/ TableEnterKey
  \/ DataLeftKey \/ DataComputedKey
  \/ ComputedEscKey \/ ComputedEnterKey \/ ComputedBackspaceKey \/ ComputedCharKey
  \/ FileChange

SpecStore == InitOf({"Sqlite", "Xlsx"}) /\ [][NextStore]_vars

\* The stored record of a file that is written while the clock runs.
NextStale ==
  \/ TableUpKey \/ TableDownKey \/ TableEnterKey
  \/ DataLeftKey \/ DataComputedKey
  \/ ComputedEnterKey \/ ComputedCharKey
  \/ FileChange \/ Tick

SpecStale == InitOf({"Sqlite"}) /\ [][NextStale]_vars

\* The cursor on the pages of custom queries, with and without the rowid column and
\* with and without rows.
NextRowid ==
  \/ TableEnterKey
  \/ DataLeftKey \/ DataSpaceKey \/ DataQueryKey
  \/ QueryEnterKey \/ RowidQueryCharKey
  \/ EditEscKey
  \/ ErrorEscKey

SpecRowid == InitOf({"Sqlite"}) /\ [][NextRowid]_vars

\* Computed columns defined one after the other, the same definition twice among them,
\* and an edit committed on the page that has them.
NextRepeat ==
  \/ TableEnterKey
  \/ DataRightKey \/ DataSpaceKey \/ DataComputedAgainKey
  \/ RepeatComputedCharKey \/ ComputedEnterKey
  \/ EditEnterKey

SpecRepeat == InitOf({"Sqlite", "Csv"}) /\ [][NextRepeat]_vars

\* Errors and the way out of them: the keys that raise an error, the help screen, Esc
\* and the quit chord.
NextErr ==
  \/ HelpEsc \/ HelpKey \/ QuitKey
  \/ TableEnterKey
  \/ DataQueryKey \/ DataComputedKey
  \/ DataSaveKey \/ DataEnterKey
  \/ QueryEscKey \/ QueryEnterKey \/ QueryCharKey
  \/ DetailEscKey \/ DetailCopyKey
  \/ ErrorEscKey
  \/ ComputedEscKey \/ ComputedEnterKey \/ ComputedCharKey
  \/ QueryChordKey \/ ComputedChordKey

SpecErr == InitOf({"Sqlite", "Csv"}) /\ [][NextErr]_vars

-----------------------------------------------------------------------------
(* The expression engine on its own: evaluate_expression_static applied to *)
(* the text  a op1 b op2 c  of three integer literals.                     *)

\* The largest literal.
MaxLit == 4

Ops == {"+", "-", "*", "/"}

EvInputs == [a : 0..MaxLit, op1 : Ops, b : 0..MaxLit, op2 : Ops, c : 0..MaxLit]

\* The text of an input, as a user types it.
ExprText(in) == NatToStr(in.a) \o <<in.op1>> \o NatToStr(in.b) \o <<in.op2>> \o NatToStr(in.c)

\* The controller is not running.
NavIdle ==
  source = "Csv" /\ file_metadata = [len |-> 1, modified |-> 0] /\ now = 0 /\ Holds(New)

InitEval ==
  /\ NavIdle
  /\ FetchIdle
  /\ PersistIdle
  /\ ev_in \in EvInputs
  /\ ev_expr = <<>>
  /\ ev_result = Ok(<<>>)

Evaluate ==
  /\ ev_expr = <<>>
  /\ ev_expr' = ExprText(ev_in)
  /\ ev_result' = evaluate_expression_static(ExprText(ev_in))
  /\ UNCHANGED <<ev_in, navVars, fetchVars, persistVars>>

NextEval == Evaluate

SpecEval == InitEval /\ [][NextEval]_vars

-----------------------------------------------------------------------------
(* The data-access layer on its own: get_table_data of every variant, for  *)
(* every table, offset and limit.                                          *)

MaxOffset == 4

MaxLimit == 4

FetchRequests ==
  {r \in [src : Sources, table : {T1, T2, CsvTable, ParquetTable},
          offset : 0..MaxOffset, limit : 1..MaxLimit] :
     \E i \in 1..Len(get_tables(r.src)) : get_tables(r.src)[i] = r.table}

InitFetch ==
  /\ NavIdle
  /\ EvIdle
  /\ PersistIdle
  /\ f_req \in FetchRequests
  /\ f_result = Failed

Fetch ==
  /\ ~f_result.ok
  /\ \E db_ok \in BOOLEAN :
       f_result' = get_table_data(f_req.src, f_req.table, f_req.offset, f_req.limit, db_ok)
  /\ UNCHANGED <<f_req, navVars, evVars, persistVars>>

NextFetch == Fetch

SpecFetch == InitFetch /\ [][NextFetch]_vars

-----------------------------------------------------------------------------
(* The store on its own: save_computed_columns, load_computed_columns and  *)
(* should_recalculate called for one file, as the tests of persistence.rs  *)
(* call them, while the file is written and the clock runs.                *)

SumA == ComputedColumn(<<"s", "u", "m", "(", "A", ")">>, <<"s", "u", "m", "(", "A", ")">>,
                       Aggregate(<<"s", "u", "m">>))

AOverB == ComputedColumn(<<"A", "/", "B">>, <<"A", "/", "B">>, RowOperation(<<"A", "B">>))

APlusSumA ==
  ComputedColumn(<<"A", "+", "s", "u", "m", "(", "A", ")">>,
                 <<"A", "+", "s", "u", "m", "(", "A", ")">>,
                 MixedOperation(<<"A">>, << <<"s", "u", "m", "(", "A", ")">> >>))

\* The lists that are saved: none, one of each kind in two orders, and a single column.
PersistLists == {<<>>, <<SumA, AOverB, APlusSumA>>, <<APlusSumA, AOverB, SumA>>, <<AOverB>>}

PersistTables == {T1, T2}

InitPersist ==
  /\ NavIdle
  /\ EvIdle
  /\ FetchIdle
  /\ PersistIdle

\* save_computed_columns(file, table_name, list)
Save ==
  \E table_name \in PersistTables, list \in PersistLists :
    /\ store' = persistence_save_computed_columns(store, table_name, list)
    /\ p_call' = [op |-> "save", table |-> table_name, loaded |-> None, stale |-> FALSE]
    /\ p_fresh' = MapInsert(p_fresh, table_name, list)
    /\ UNCHANGED <<source, file_metadata, now, app, fatal_error, appVars, key, io, loaded,
                   typed, evVars, fetchVars>>

\* load_computed_columns(file, table_name)
Load ==
  \E table_name \in PersistTables :
    /\ p_call' = [op |-> "load", table |-> table_name,
                  loaded |-> persistence_load_computed_columns(store, table_name),
                  stale |-> FALSE]
    /\ UNCHANGED <<navVars, evVars, fetchVars, p_fresh>>

\* should_recalculate(file)
ShouldRecalculate ==
  /\ p_call' = [op |-> "should_recalculate", table |-> <<>>, loaded |-> None,
                stale |-> should_recalculate(store)]
  /\ UNCHANGED <<navVars, evVars, fetchVars, p_fresh>>

NextPersist == Save \/ Load \/ ShouldRecalculate \/ FileChange \/ Tick

SpecPersist == InitPersist /\ [][NextPersist]_vars

-----------------------------------------------------------------------------
(* The aggregates on their own: compute_aggregate_static of every function *)
(* over a page whose column B holds every list of the cells below.         *)

\* The rows of a page given to an aggregate.
MaxAggRows == 4

\* The cells of column B: integers, text that is no number, the empty cell.
AggCells == {<<"1">>, <<"2">>, <<"4">>, <<"-", "3">>, <<"x">>, <<>>}

AggInputs ==
  [func : {AggFuncs[i] : i \in 1..Len(AggFuncs)},
   cells : UNION {[1..n -> AggCells] : n \in 0..MaxAggRows}]

\* The page with the cells in column B; column A numbers the rows.
AggPage(cells) ==
  [columns |-> <<ColA, ColB>>,
   rows |-> [i \in 1..Len(cells) |-> <<NatToStr(i), cells[i]>>],
   total_rows |-> Len(cells)]

\* The expression of the aggregate column, as apply_computed_columns passes it.
AggText(func) == func \o <<"(">> \o ColB \o <<")">>

InitAgg ==
  /\ NavIdle
  /\ FetchIdle
  /\ PersistIdle
  /\ ev_in \in AggInputs
  /\ ev_expr = <<>>
  /\ ev_result = Ok(<<>>)

ComputeAggregate ==
  /\ ev_expr = <<>>
  /\ ev_expr' = AggText(ev_in.func)
  /\ ev_result' = compute_aggregate_static(AggPage(ev_in.cells), ev_in.func,
                                           AggText(ev_in.func))
  /\ UNCHANGED <<ev_in, navVars, fetchVars, persistVars>>

NextAgg == ComputeAggregate

SpecAgg == InitAgg /\ [][NextAgg]_vars

-----------------------------------------------------------------------------
(* A mixed operation on its own: compute_mixed_operation_static of          *)
(* "C - mean(C)" for every row of a page whose column C holds integers.     *)

\* The rows of a page given to the mixed operation.
MaxMixedRows == 3

MixedCells == {-30, -10, 10, 20, 30}

MixedInputs == [cells : UNION {[1..n -> MixedCells] : n \in 1..MaxMixedRows}]

ColC == <<"C">>

MeanC == <<"m", "e", "a", "n", "(", "C", ")">>

CMinusMeanC == ColC \o <<" ", "-", " ">> \o MeanC

MixedPage(cells) ==
  [columns |-> <<ColC>>,
   rows |-> [i \in 1..Len(cells) |-> <<IntToStr(cells[i])>>],
   total_rows |-> Len(cells)]

InitMixed ==
  /\ NavIdle
  /\ FetchIdle
  /\ PersistIdle
  /\ ev_in \in MixedInputs
  /\ ev_expr = <<>>
  /\ ev_result = Ok(<<>>)

\* The loop of apply_computed_columns over the rows, for the MixedOperation with
\* columns_used [C] and aggregate_expressions [mean(C)]: the value of every row.
ComputeMixed ==
  /\ ev_expr = <<>>
  /\ ev_expr' = CMinusMeanC
  /\ ev_result' =
       [i \in 1..Len(ev_in.cells) |->
          compute_mixed_operation_static(MixedPage(ev_in.cells), MixedPage(ev_in.cells).rows[i],
                                         CMinusMeanC, <<ColC>>, <<MeanC>>)]
  /\ UNCHANGED <<ev_in, navVars, fetchVars, persistVars>>

NextMixed == ComputeMixed

SpecMixed == InitMixed /\ [][NextMixed]_vars

-----------------------------------------------------------------------------
(* The rewriting of a custom query on its own: execute_custom_query's text *)
(* for the engine, for queries of up to MaxWords words separated by one or *)
(* two spaces.                                                             *)

MaxWords == 3

\* Words of a query: the alias in both cases, the alias followed by punctuation, words
\* that begin with, end in or contain an x, and words of a statement.
AliasWords ==
  {<<"x">>, <<"X">>, <<"x", ".", "A">>, <<"X", ".", "A">>, <<"x", ",">>, <<"x", "A">>,
   <<"A", "x">>, <<"x", "1">>, <<"(", "x">>, <<"%", "t", "e", "x", "t", "%">>,
   StrSelect, <<"*">>, StrFROM, <<"A">>}

AliasInputs ==
  [words : UNION {[1..n -> AliasWords] : n \in 1..MaxWords},
   gap   : {<<" ">>, <<" ", " ">>},
   table : {T1}]

\* The text of a query: every word preceded by the gap.
RECURSIVE QueryText(_, _)
QueryText(words, gap) ==
  IF Len(words) = 0 THEN <<>> ELSE gap \o words[1] \o QueryText(Tail(words), gap)

InitAlias ==
  /\ NavIdle
  /\ EvIdle
  /\ PersistIdle
  /\ f_req \in AliasInputs
  /\ f_result = Failed

Rewrite ==
  /\ ~f_result.ok
  /\ f_result' = Fetched(final_query(QueryText(f_req.words, f_req.gap), f_req.table))
  /\ UNCHANGED <<f_req, navVars, evVars, persistVars>>

NextAlias == Rewrite

SpecAlias == InitAlias /\ [][NextAlias]_vars

-----------------------------------------------------------------------------
(* A RowOperation on its own: compute_row_operation_static on one row of a *)
(* page with the columns A, B and AB, for the expressions  left op right   *)
(* over the three column names.                                            *)

ColAB == <<"A", "B">>

RowOpColumns == <<ColA, ColB, ColAB>>

\* The texts of a cell: integers, and a text that is no number.
RowOpCells == {<<"0">>, <<"1">>, <<"2">>, <<"x">>}

RowOpInputs ==
  [left : 1..Len(RowOpColumns), op : {"+", "-", "*"}, right : 1..Len(RowOpColumns),
   row : [1..Len(RowOpColumns) -> RowOpCells]]

\* The expression of an input, as it is stored in the computed column.
RowOpText(in) == RowOpColumns[in.left] \o <<in.op>> \o RowOpColumns[in.right]

RowOpPage(row) == [columns |-> RowOpColumns, rows |-> <<row>>, total_rows |-> 1]

InitRowOp ==
  /\ NavIdle
  /\ FetchIdle
  /\ PersistIdle
  /\ ev_in \in RowOpInputs
  /\ ev_expr = <<>>
  /\ ev_result = Ok(<<>>)

\* parse_and_add_computed_column takes columns_used from extract_column_names, and
\* apply_computed_columns passes them with the row to compute_row_operation_static.
ComputeRowOperation ==
  /\ ev_expr = <<>>
  /\ ev_expr' = RowOpText(ev_in)
  /\ ev_result' = compute_row_operation_static(RowOpPage(ev_in.row), ev_in.row,
                                               RowOpText(ev_in),
                                               extract_column_names(RowOpText(ev_in)))
  /\ UNCHANGED <<ev_in, navVars, fetchVars, persistVars>>

NextRowOp == ComputeRowOperation

SpecRowOp == InitRowOp /\ [][NextRowOp]_vars

-----------------------------------------------------------------------------
(* The store of several source files: save_computed_columns and            *)
(* load_computed_columns called with the paths of files that exist, on one *)
(* storage directory.  p_fresh holds the fingerprint of every source file  *)
(* and the storage directory, a map from the name of a storage file to the *)
(* record written there.                                                   *)

\* The paths of the source files: a file inside a directory, a file whose name has
\* an underscore where the first has the separator, and a file with neither.
Paths == {<<"a", "/", "b">>, <<"a", "_", "b">>, <<"a", "b">>}

\* The fingerprints a source file can have.
FileHashes == {<<1, 0>>, <<2, 0>>}

\* The lists that are saved for a table.
PathLists == {<<>>, <<AOverB>>}

\* get_storage_file_path, line 161: the characters replaced by the first replace.
UnsafeChars == {"/", "\\", ":", "*", "?", "\"", "<", ">", "|"}

\* ComputedColumnPersistence::get_storage_file_path: the name of the storage file
\* inside the storage directory.
get_storage_file_path(file_path) ==
  LET safe_name == [i \in 1..Len(file_path) |->
                      IF file_path[i] \in UnsafeChars \/ file_path[i] = " "
                        THEN "_" ELSE file_path[i]]
  IN  safe_name \o <<".", "j", "s", "o", "n">>

\* ComputedColumnPersistence::load_file_data: None stands for Err (no storage file).
load_file_data(dir, file_path) ==
  IF get_storage_file_path(file_path) \in DOMAIN dir
    THEN Some(dir[get_storage_file_path(file_path)])
    ELSE None

\* ComputedColumnPersistence::save_computed_columns, the storage directory after it;
\* file_hash is calculate_file_hash of the file at file_path.
save_computed_columns_at(dir, file_path, file_hash, table_name, cols) ==
  LET file_data == IF IsSome(load_file_data(dir, file_path))
                     THEN Get(load_file_data(dir, file_path))
                     ELSE [file_path |-> file_path, file_hash |-> file_hash,
                           last_modified |-> as_secs(now), computed_columns |-> EmptyMap]
  IN  MapInsert(dir, get_storage_file_path(file_path),
                [file_path |-> file_data.file_path,
                 file_hash |-> file_hash,
                 last_modified |-> as_secs(now),
                 computed_columns |->
                   MapInsert(file_data.computed_columns, table_name,
                             [i \in 1..Len(cols) |-> ToPersisted(cols[i])])])

\* ComputedColumnPersistence::load_computed_columns of the file at file_path, whose
\* fingerprint is file_hash: None stands for Err (no record).
load_computed_columns_at(dir, file_path, file_hash, table_name) ==
  LET st == load_file_data(dir, file_path)
  IN  IF ~IsSome(st) THEN None
      ELSE IF file_hash # Get(st).file_hash THEN Some(<<>>)
      ELSE IF table_name \in DOMAIN Get(st).computed_columns
        THEN Some([i \in 1..Len(Get(st).computed_columns[table_name]) |->
                     FromPersisted(Get(st).computed_columns[table_name][i])])
        ELSE Some(<<>>)

InitPaths ==
  /\ NavIdle
  /\ EvIdle
  /\ FetchIdle
  /\ p_call = NoCall
  /\ \E files \in [Paths -> FileHashes] : p_fresh = [files |-> files, dir |-> EmptyMap]

\* save_computed_columns(file_path, table_name, list)
SaveFor(file_path) ==
  \E table_name \in PersistTables, list \in PathLists :
    /\ p_fresh' = [p_fresh EXCEPT
                     !.dir = save_computed_columns_at(p_fresh.dir, file_path,
                                                      p_fresh.files[file_path],
                                                      table_name, list)]
    /\ p_call' = [op |-> "save", table |-> table_name, loaded |-> None, stale |-> FALSE]
    /\ UNCHANGED <<navVars, evVars, fetchVars>>

SaveAt == \E file_path \in Paths : SaveFor(file_path)

\* load_computed_columns(file_path, table_name)
LoadAt ==
  \E file_path \in Paths, table_name \in PersistTables :
    /\ p_call' = [op |-> "load", table |-> table_name,
                  loaded |-> load_computed_columns_at(p_fresh.dir, file_path,
                                                      p_fresh.files[file_path], table_name),
                  stale |-> FALSE]
    /\ UNCHANGED <<navVars, evVars, fetchVars, p_fresh>>

NextPaths == SaveAt \/ LoadAt

SpecPaths == InitPaths /\ [][NextPaths]_vars

-----------------------------------------------------------------------------
(* The claims of the specification, each stated over the model.            *)

\* C1: multiplication binds tighter than addition: the text "a+b*c" evaluates to the
\* value of a+(b*c) (so "2+3*4" gives "14").
C1_MultiplicationBindsTighter ==
  (ev_expr # <<>> /\ ev_in.op1 = "+" /\ ev_in.op2 = "*")
    => ev_result = Ok(NatToStr(ev_in.a + ev_in.b * ev_in.c))

\* C2: for every variant of the data source, the page get_table_data returns carries
\* in total_rows the number of rows of the whole table, whatever the offset and limit.
C2_TotalRowsIsTableSize ==
  f_result.ok => f_result.data.total_rows = Len(FileData(f_req.table).rows)

\* The page that is loaded, for the formulas below.
Page == Get(current_data)

\* C3: after every page load by load_current_data the page has at most page_size rows
\* and at most total_rows - data_offset rows.
C3_LoadedPageWithinBounds ==
  (app = "running" /\ Did(io, "load") /\ IsSome(current_data))
    => /\ Len(Page.rows) <= page_size
       /\ data_offset + Len(Page.rows) <= Page.total_rows

\* The cursor is on the last row of the page.
OnLastRow ==
  /\ IsSome(current_data)
  /\ Len(Page.rows) > 0
  /\ selected_row_idx = Len(Page.rows) - 1

\* C4: in Data mode with the cursor on the last row of the page, Down advances
\* data_offset by exactly page_size, puts the cursor on row 0 and reloads the page when
\* data_offset + rows.len() < total_rows; otherwise data_offset and the cursor stay as
\* they are and the page is not reloaded.
C4_DownAtLastRow ==
  [][(DataDownKey /\ OnLastRow)
       => IF data_offset + Len(Page.rows) < Page.total_rows
            THEN /\ data_offset' = data_offset + page_size
                 /\ selected_row_idx' = 0
                 /\ Did(io', "load") \/ Did(io', "load failed")
            ELSE /\ data_offset' = data_offset
                 /\ selected_row_idx' = selected_row_idx
                 /\ selected_col_idx' = selected_col_idx
                 /\ current_data' = current_data
                 /\ io' = <<>>]_vars

\* C4's case has happened: Down was pressed on the last row of the first page of a
\* table with more rows, and the second page is loaded with the cursor on its row 0.
C4_Witness ==
  /\ app = "running"
  /\ navigation_mode = "Data"
  /\ key = "Down"
  /\ io = <<"load">>
  /\ data_offset = page_size
  /\ selected_row_idx = 0
  /\ IsSome(current_data)
  /\ Len(Page.rows) > 0

\* C5: whenever the page has at least one row, selected_row_idx < rows.len().
C5_CursorRowInsidePage ==
  (app = "running" /\ IsSome(current_data) /\ Len(Page.rows) > 0)
    => selected_row_idx < Len(Page.rows)

\* C6: whenever a page is loaded, selected_col_idx is at least the index of the first
\* column that is not rowid (1 when columns[0] is "rowid", else 0).
C6_CursorColumnPastRowid ==
  (app = "running" /\ IsSome(current_data)) => selected_col_idx >= min_col(Page)

\* C10: a failure of the data source inside the loop (a page reload or an export) does
\* not end the loop: the key event ends in ErrorDisplay with the message set.
C10_SourceFailureIsShown ==
  (Did(io, "load failed") \/ Did(io, "export failed"))
    => /\ app = "running"
       /\ navigation_mode = "ErrorDisplay"
       /\ IsSome(error_message)

\* C7: in every state in which a page is loaded, every row of the page has exactly
\* columns.len() cells, also after the recomputation that follows Enter in Edit mode.
C7_RowsMatchColumns ==
  (app = "running" /\ IsSome(current_data))
    => \A i \in 1..Len(Page.rows) : Len(Page.rows[i]) = Len(Page.columns)

\* The cell that is edited, (row, col) from 0, exists in the page.
EditedCellExists ==
  /\ IsSome(editing_cell)
  /\ IsSome(current_data)
  /\ Get(editing_cell)[1] < Len(Page.rows)
  /\ Get(editing_cell)[2] < Len(Page.columns)
  /\ Get(editing_cell)[2] < Len(Page.rows[Get(editing_cell)[1] + 1])

\* The rows of the page with the text of the edit buffer in the cell that is edited.
RowsWithEdit ==
  [Page.rows EXCEPT ![Get(editing_cell)[1] + 1][Get(editing_cell)[2] + 1] = edit_input]

ComputedNames == {computed_columns[i].name : i \in 1..Len(computed_columns)}

\* The cells of a row under the columns that are not named like a computed column, in
\* the order of the columns.
SourceCellsOfRow(row, columns) ==
  LET n   == Min(Len(row), Len(columns))
      idx == SelectSeq([j \in 1..n |-> j], LAMBDA j : columns[j] \notin ComputedNames)
  IN  [k \in 1..Len(idx) |-> row[idx[k]]]

SourceCells(rows, columns) ==
  [i \in 1..Len(rows) |-> SourceCellsOfRow(rows[i], columns)]

C9_StaleListNeverLoaded ==
  (IsSome(loaded) /\ Get(loaded).cols > 0) => Get(loaded).under = Get(loaded).live

\* C11: an error raised while a computed column is materialized is not fatal: Enter
\* in ComputedColumn mode never ends the loop with an error.
C11_ComputedEnterNeverFatal == [][ComputedEnterKey => app' = "running"]_vars

\* Enter in Query mode ran the query and the data source rejected it.
QueryRejected ==
  QueryEnterKey /\ Did(io', "query") /\ status_message' # Some("Query executed successfully")

\* Enter in ComputedColumn mode submitted a text that fails to parse.
ExpressionRejected ==
  /\ ComputedEnterKey
  /\ Len(Trim(computed_column_input)) > 0
  /\ ~parse_and_add_computed_column(current_data, computed_columns, computed_column_input).ok

\* C12: when Enter in Query mode runs a query the data source rejects, or Enter in
\* ComputedColumn mode submits a text that fails to parse, the key event ends in
\* ErrorDisplay with error_message set to the failure text.
C12_FailureOpensErrorDisplay ==
  [][(QueryRejected \/ ExpressionRejected)
       => /\ navigation_mode' = "ErrorDisplay"
          /\ IsSome(error_message')
          /\ Get(error_message').fmt \in {"Query error: {}", "Expression error: {}"}]_vars

\* The page, the cursor, the offset, the edit buffer and the input buffers stay as
\* they are.
ViewUnchanged ==
  UNCHANGED <<current_data, current_query, selected_row_idx, selected_col_idx, data_offset,
              edit_input, editing_cell, data_modified, query_input, computed_column_input,
              computed_columns>>

\* C13: Esc in ErrorDisplay sets navigation_mode to the mode that was active when the
\* error was raised, clears error_message and leaves the page, the cursor,
\* data_offset, the edit buffer and the input buffers as they were.
C13_EscRestoresMode ==
  [][(navigation_mode = "ErrorDisplay" /\ (ErrorEscKey \/ HelpEsc))
       => /\ navigation_mode' = previous_navigation_mode
          /\ error_message' = None
          /\ ViewUnchanged]_vars

\* C13, as the code has it: Esc in ErrorDisplay with the help screen closed restores
\* the remembered mode, clears error_message and leaves the view as it was; with the
\* help screen open, Esc closes the help screen and leaves the error on display.
C13_EscRestoresModeUnlessHelp ==
  [][/\ ErrorEscKey
          => /\ navigation_mode' = previous_navigation_mode
             /\ error_message' = None
             /\ ViewUnchanged
     /\ (navigation_mode = "ErrorDisplay" /\ HelpEsc)
          => /\ navigation_mode' = "ErrorDisplay"
             /\ ~show_help'
             /\ UNCHANGED <<error_message, previous_navigation_mode>>
             /\ ViewUnchanged]_vars

\* C13's case has happened: Esc dismissed an error raised in DetailedView (a failed
\* copy) and the detailed view is back.
C13_Witness ==
  /\ app = "running"
  /\ key = "Esc"
  /\ navigation_mode = "DetailedView"
  /\ previous_navigation_mode = "DetailedView"
  /\ error_message = None
  /\ IsSome(detailed_view_row)
  /\ ~show_help

\* C14: in every navigation mode the quit chord makes handle_key_event return false,
\* so that the loop ends, and modifies no buffer.
C14_QuitChordEndsLoop ==
  [][(QuitKey \/ QueryChordKey \/ EditChordKey \/ ComputedChordKey)
       => /\ app' = "quit"
          /\ UNCHANGED <<query_input, edit_input, computed_column_input>>]_vars

\* C15: once computed columns have been saved for the file, should_recalculate is
\* false while the file's size and modification time are those of the last save, and
\* true as soon as the size or the modification time differs from them.
C15_StaleIffMetadataDiffers ==
  IsSome(store) =>
    (should_recalculate(store) <=> Get(store).saved_metadata # file_metadata)

\* C16: a list of computed columns saved for a table and loaded for that table while
\* the file has not been written since comes back as it was given: the same length,
\* the same order, and for every entry the same name, expression and kind.
C16_SaveLoadRoundTrip ==
  (p_call.op = "load" /\ p_call.table \in DOMAIN p_fresh)
    => p_call.loaded = Some(p_fresh[p_call.table])

C16_Witness ==
  /\ p_call.op = "load"
  /\ p_call.table = T1
  /\ DOMAIN p_fresh = {T1, T2}
  /\ p_fresh[T1] = <<APlusSumA, AOverB, SumA>>
  /\ p_fresh[T2] = <<SumA, AOverB, APlusSumA>>
  /\ p_call.loaded = Some(<<APlusSumA, AOverB, SumA>>)

\* C17: save_computed_columns for a table stores exactly the given list under that
\* table, sets the record's fingerprint to the file's and its timestamp to the time of
\* the save, and leaves the list of every other table as it was; load_computed_columns
\* and should_recalculate leave the stored record as it was.
C17_SaveReplacesOneTable ==
  [][/\ Save =>
          /\ IsSome(store')
          /\ DOMAIN Get(store').computed_columns =
               (IF IsSome(store) THEN DOMAIN Get(store).computed_columns ELSE {})
                 \cup {p_call'.table}
          /\ Get(store').computed_columns[p_call'.table] =
               [i \in 1..Len(p_fresh'[p_call'.table]) |->
                  ToPersisted(p_fresh'[p_call'.table][i])]
          /\ \A other \in DOMAIN Get(store').computed_columns \ {p_call'.table} :
               Get(store').computed_columns[other] = Get(store).computed_columns[other]
          /\ Get(store').file_hash = calculate_file_hash
          /\ Get(store').last_modified = as_secs(now)
     /\ (Load \/ ShouldRecalculate) => UNCHANGED store]_vars

C17_Witness ==
  /\ p_call.op = "save"
  /\ p_call.table = T2
  /\ IsSome(store)
  /\ DOMAIN Get(store).computed_columns = {T1, T2}
  /\ Len(Get(store).computed_columns[T1]) = 3
  /\ Len(Get(store).computed_columns[T2]) = 1
  /\ Get(store).last_modified = 1
  /\ Get(store).file_hash = <<2, 1>>
  /\ Get(store).saved_under[T1] = <<1, 0>>

\* C18: a page load made while no record is stored for the file finds nothing to
\* recalculate, leaves computed_columns empty, raises and shows no error, and succeeds:
\* the page is there and the loop goes on.
C18_NoRecordIsNoError ==
  [][(~IsSome(store) /\ Did(io', "load"))
       => /\ ~should_recalculate(store)
          /\ computed_columns' = <<>>
          /\ IsSome(current_data')
          /\ app' = "running"
          /\ navigation_mode' # "ErrorDisplay"
          /\ UNCHANGED error_message]_vars

C18_Witness ==
  /\ ~IsSome(store)
  /\ key = "Down"
  /\ Did(io, "load")
  /\ selected_table_idx = 1
  /\ computed_columns = <<>>
  /\ IsSome(current_data)
  /\ app = "running"

\* The columns a definition without a name part refers to that the page does not have.
AbsentReferenced(page, text) ==
  {col \in {extract_column_names(Trim(text))[i] :
              i \in 1..Len(extract_column_names(Trim(text)))} : ~HasColumn(page, col)}

\* C19: Enter on a computed-column definition that refers to a column the current page
\* does not have (a bare name, an operand of an arithmetic expression, the argument of
\* an aggregate call) is rejected with an error that names the column, and leaves
\* computed_columns, the page and the stored record as they were.
C19_UnknownColumnRejected ==
  [][(/\ ComputedEnterKey
      /\ IsSome(current_data)
      /\ FindFrom(computed_column_input, "=", 1) = 0
      /\ AbsentReferenced(current_data, computed_column_input) # {})
       => /\ IsSome(error_message')
          /\ Get(error_message').cause \in {"Column '{}' does not exist",
                                            "Column '{}' in aggregate '{}' does not exist"}
          /\ Get(error_message').arg \in AbsentReferenced(current_data, computed_column_input)
          /\ UNCHANGED <<computed_columns, current_data, store>>]_vars

\* C20: evaluating an expression that holds a division whose divisor is zero fails with
\* the division-by-zero error and gives no value: in the text "a op1 b op2 c", a division
\* by the literal b = 0 or by the literal c = 0.
C20_DivisionByZeroFails ==
  (/\ ev_expr # <<>>
   /\ \/ ev_in.op1 = "/" /\ ev_in.b = 0
      \/ ev_in.op2 = "/" /\ ev_in.c = 0)
    => ev_result = Err(DivisionByZero)

\* The integer a cell of AggCells stands for, when it is a number.
IsNumberCell(cell) == cell \in {<<"1">>, <<"2">>, <<"4">>, <<"-", "3">>}

NumberOf(cell) ==
  CASE cell = <<"1">> -> 1
    [] cell = <<"2">> -> 2
    [] cell = <<"4">> -> 4
    [] cell = <<"-", "3">> -> -3

RECURSIVE IntSum(_)
IntSum(cells) == IF Len(cells) = 0 THEN 0 ELSE NumberOf(Head(cells)) + IntSum(Tail(cells))

\* The aggregate of the integers of cells, all of them numbers and at least one.
ExpectedAggregate(func, cells) ==
  LET ints == {NumberOf(cells[i]) : i \in 1..Len(cells)}
  IN  CASE func = StrSum   -> IntToStr(IntSum(cells))
        [] func = StrCount -> NatToStr(Len(cells))
        [] func = StrMin   -> IntToStr(CHOOSE m \in ints : \A k \in ints : m <= k)
        [] func = StrMax   -> IntToStr(CHOOSE m \in ints : \A k \in ints : m >= k)
        [] func = StrMean  ->
             FormatNum(Num(IntSum(cells) < 0,
                           IF IntSum(cells) < 0 THEN 0 - IntSum(cells) ELSE IntSum(cells),
                           Len(cells)))

\* C21: every aggregate over a column is the aggregate of the cells of the page that
\* parse as numbers, the other cells being skipped (the sum over 1, 2, x, 4 is "7", the
\* count is the number of cells that parse), and is "0" when no cell parses.
C21_AggregateOverParsableCells ==
  ev_expr # <<>> =>
    ev_result = Ok(IF SelectSeq(ev_in.cells, IsNumberCell) = <<>> THEN <<"0">>
                   ELSE ExpectedAggregate(ev_in.func, SelectSeq(ev_in.cells, IsNumberCell)))

C21_Witness ==
  /\ ev_expr = <<"s", "u", "m", "(", "B", ")">>
  /\ ev_in.cells = << <<"1">>, <<"2">>, <<"x">>, <<"4">> >>
  /\ ev_result = Ok(<<"7">>)

RECURSIVE SumOf(_)
SumOf(ints) == IF Len(ints) = 0 THEN 0 ELSE Head(ints) + SumOf(Tail(ints))

\* C22: for the mixed operation "C - mean(C)" over a page whose column C holds integers,
\* positive or negative, with an integer mean, the value of every row is the row's C
\* minus the mean of C, written without decimals (10, 20, 30 gives "-10" in row 1).
C22_RowMinusMean ==
  (ev_expr = CMinusMeanC /\ SumOf(ev_in.cells) % Len(ev_in.cells) = 0)
    => \A i \in 1..Len(ev_in.cells) :
         ev_result[i] = Ok(IntToStr(ev_in.cells[i] - SumOf(ev_in.cells) \div Len(ev_in.cells)))

C24_LeftKeepsPage ==
  [][(/\ DataLeftKey
      /\ IsSome(current_data)
      /\ min_col(Get(current_data)) = 0
      /\ selected_col_idx = 0)
       => /\ navigation_mode' = "Table"
          /\ IsSome(current_data')
          /\ Get(current_data').columns = Get(current_data).columns
          /\ Get(current_data').rows = Get(current_data).rows]_vars

\* C25: s in Data mode while a custom query is active is rejected: no file is written,
\* data_modified and the page stay as they were, the query stays set, and the error is
\* shown (ErrorDisplay, the remembered mode is Data).
C25_SaveUnderQueryIsRejected ==
  [][(DataSaveKey /\ IsSome(current_query))
       => /\ io' = <<>>
          /\ UNCHANGED <<data_modified, current_data, current_query>>
          /\ navigation_mode' = "ErrorDisplay"
          /\ previous_navigation_mode' = "Data"
          /\ IsSome(error_message')
          /\ Get(error_message').fmt =
               "Cannot save custom query results. Press 'r' to reload table data first."]_vars

C25_Witness ==
  /\ key = "s"
  /\ IsSome(current_query)
  /\ data_modified
  /\ navigation_mode = "ErrorDisplay"
  /\ previous_navigation_mode = "Data"
  /\ IsSome(error_message)
  /\ io = <<>>

\* The texts of the first column of a page, row by row.
FirstCells(data) == [i \in 1..Len(data.rows) |-> data.rows[i][1]]

TenMinusThreeMinusTwo == <<"1", "0", "-", "3", "-", "2">>

\* C27 as the specification states it: a chain a-b-c of integer literals evaluates to
\* a-(b-c), and 10-3-2 to 9.
C27_SubtractionChainNestsRight ==
  (ev_expr # <<>> /\ ev_in.op1 = "-" /\ ev_in.op2 = "-")
    => /\ ev_result = Ok(IntToStr(ev_in.a - (ev_in.b - ev_in.c)))
       /\ evaluate_expression_static(TenMinusThreeMinusTwo) = Ok(<<"9">>)

\* C27: a chain a-b-c of integer literals is split at its last "-" and evaluates to
\* (a-b)-c, the conventional value; 10-3-2 evaluates to 5.
C27_SubtractionChainNestsLeft ==
  (ev_expr # <<>> /\ ev_in.op1 = "-" /\ ev_in.op2 = "-")
    => /\ ev_result = Ok(IntToStr((ev_in.a - ev_in.b) - ev_in.c))
       /\ evaluate_expression_static(TenMinusThreeMinusTwo) = Ok(<<"5">>)

\* 4-3-2 was evaluated to -1, where a-(b-c) is 3.
C27_Witness ==
  /\ ev_expr = <<"4", "-", "3", "-", "2">>
  /\ ev_result = Ok(<<"-", "1">>)

\* The rule of the alias on one word.
AliasRule(word, table_name) ==
  IF Len(word) = 1 /\ word[1] \in {"x", "X"} THEN table_name
  ELSE IF Len(word) > 1 /\ word[1] \in {"x", "X"} /\ ~IsAlphanumeric(word[2])
    THEN table_name \o SubSeq(word, 2, Len(word))
  ELSE word

\* The words of the text for the engine that come from the query: the word "rowid,"
\* that SELECT * gains is left out, and so is the FROM clause that is appended.
QueryWordsOf(stmt, n) ==
  SubSeq(SelectSeq(split_whitespace(stmt), LAMBDA w : w # <<"r", "o", "w", "i", "d", ",">>),
         1, n)

\* C28: in the text execute_custom_query hands to the engine, a word x or X of the query
\* is the table name, a word that begins with x or X followed by a character that is
\* not alphanumeric has that first character replaced by the table name, and every
\* other word, %text% among them, is the word of the query.
C28_AliasByWordRule ==
  f_result.ok
    => QueryWordsOf(f_result.data, Len(f_req.words))
         = [i \in 1..Len(f_req.words) |-> AliasRule(f_req.words[i], f_req.table)]

\* The query "x.A %text% X" was rewritten to "t.A %text% t FROM t".
C28_Witness ==
  /\ f_req.words = << <<"x", ".", "A">>, <<"%", "t", "e", "x", "t", "%">>, <<"X">> >>
  /\ f_result.ok
  /\ f_result.data = <<"t", ".", "A", " ", "%", "t", "e", "x", "t", "%", " ", "t",
                       " ", "F", "R", "O", "M", " ", "t">>

\* The value of one computed column for one row of the page.
CellValue(data, row, computed_col) ==
  IF computed_col.column_type.kind = "Aggregate"
    THEN compute_aggregate_static(data, computed_col.column_type.func,
                                  computed_col.expression)
    ELSE RowValue(data, row, computed_col)

\* Every computed column is a column of the page, and each of its cells is the value
\* of its expression on the row as it is.
Materialized(data, computed_cols) ==
  \A k \in 1..Len(computed_cols) :
    /\ Position(data.columns, computed_cols[k].name) > 0
    /\ \A i \in 1..Len(data.rows) :
         /\ Position(data.columns, computed_cols[k].name) <= Len(data.rows[i])
         /\ CellValue(data, data.rows[i], computed_cols[k]).ok
         /\ data.rows[i][Position(data.columns, computed_cols[k].name)]
              = CellValue(data, data.rows[i], computed_cols[k]).val

\* C29: after every key event that changes the page and leaves the program running,
\* every computed column is a column of the page whose cell in every row is the value
\* of the column's expression on that row.
C29_ComputedColumnsMaterialized ==
  [][(/\ IsSome(current_data')
      /\ current_data' # current_data
      /\ app' = "running")
       => Materialized(Get(current_data'), computed_columns')]_vars

\* The value of a cell as a RowOperation counts it: its number, 0 when it is none.
CellOrZero(cell) == IF IsNumberCell(cell) THEN cell ELSE <<"0">>

\* C30: the value of a RowOperation for a row is the value of the expression in which
\* each column name stands for that column's cell of the row (0 for a cell that is no
\* number), also when one referenced name is part of another (A and AB).
C30_RowOperationSubstitutesColumns ==
  (ev_expr # <<>>)
    => ev_result = evaluate_expression_static(CellOrZero(ev_in.row[ev_in.left])
                                              \o <<ev_in.op>>
                                              \o CellOrZero(ev_in.row[ev_in.right]))

\* The page the data source gives for a query at an offset, when it can be read.
QueryPage(query, table_name, offset, limit) ==
  Some(execute_custom_query(source, query, table_name, offset, limit, TRUE).data)

\* C31: a successful Enter of Query mode stores the query's first page (offset 0, row
\* cursor 0, page_size rows at most) and the submitted text; while that text is the
\* current query, every reload by a paging key of Data mode fetches the query's page at
\* the new offset; and only r, Left and a later query replace or clear the text.
C31_QueryStaysUntilCleared ==
  [][/\ (QueryEnterKey /\ status_message' = Some("Query executed successfully"))
          => /\ data_offset' = 0
             /\ selected_row_idx' = 0
             /\ current_query' = Some(query_input)
             /\ current_data' = QueryPage(query_input, Tables[selected_table_idx + 1],
                                          0, page_size)
     /\ (/\ \/ DataUpKey \/ DataDownKey \/ DataPageUpKey \/ DataPageDownKey
            \/ DataHomeKey \/ DataEndKey
         /\ IsSome(current_query)
         /\ Did(io', "load"))
          => /\ current_query' = current_query
             /\ current_data' = QueryPage(Get(current_query), Tables[selected_table_idx + 1],
                                          data_offset', page_size)
     /\ (IsSome(current_query) /\ current_query' # current_query)
          => DataReloadKey \/ DataLeftKey \/ QueryEnterKey]_vars

\* The second page of the query SELECT A was fetched with PageDown.
C31_Witness ==
  /\ key = "PageDown"
  /\ Did(io, "load")
  /\ current_query = Some(StrSelectA)
  /\ data_offset = PageSize
  /\ IsSome(current_data)
  /\ Get(current_data).columns = <<ColA>>
  /\ Len(Get(current_data).rows) > 0

\* The Ok arm of the Enter key of ComputedColumn mode was taken: the key reports the
\* column as added.
ColumnAdded ==
  /\ ComputedEnterKey
  /\ status_message' \in {Some("Computed column added and saved"),
                          Some("Column added but save failed: {}")}

\* C32: after a successful Enter of ComputedColumn mode, computed_columns is its former
\* value with one column appended, that column is a column of the page whose cells are
\* its expression's value on each row, the list the store holds for the file and the
\* current table is computed_columns when the write succeeded, and the mode is Data
\* with an empty input line.
C32_AddedColumnAppendedAndSaved ==
  [][ColumnAdded
       => /\ Len(computed_columns') = Len(computed_columns) + 1
          /\ SubSeq(computed_columns', 1, Len(computed_columns)) = computed_columns
          /\ IsSome(current_data')
          /\ Materialized(Get(current_data'), <<computed_columns'[Len(computed_columns')]>>)
          /\ (status_message' = Some("Computed column added and saved"))
               => persistence_load_computed_columns(store', Tables[selected_table_idx + 1])
                    = Some(computed_columns')
          /\ navigation_mode' = "Data"
          /\ computed_column_input' = <<>>]_vars

\* The cell that follows cell <<row, col>> of the page in row-major order, the rowid
\* column left out; None after the last cell of the last row.
NextCell(data, row, col) ==
  IF col < Len(data.columns) - 1 THEN Some(<<row, col + 1>>)
  ELSE IF row < Len(data.rows) - 1 THEN Some(<<row + 1, min_col(data)>>)
  ELSE None

\* C33: a Tab of Edit mode on a cell of the page that is not a rowid cell writes the
\* buffer into that cell and changes no other cell, and the edited cell becomes the
\* next cell in row-major order; after the last cell of the last row the mode is Data
\* and no cell is edited.
C33_TabWalksRowMajor ==
  [][(/\ EditTabKey
      /\ IsSome(editing_cell)
      /\ IsSome(current_data)
      /\ Get(editing_cell)[1] < Len(Get(current_data).rows)
      /\ Get(editing_cell)[2] < Len(Get(current_data).columns)
      /\ Get(editing_cell)[2] >= min_col(Get(current_data)))
       => /\ app' = "running"
          /\ current_data' =
               Some([Get(current_data) EXCEPT
                       !.rows[Get(editing_cell)[1] + 1][Get(editing_cell)[2] + 1] = edit_input])
          /\ editing_cell' = NextCell(Get(current_data), Get(editing_cell)[1],
                                      Get(editing_cell)[2])
          /\ navigation_mode' = IF IsSome(editing_cell') THEN "Edit" ELSE "Data"]_vars

\* Tab moved the edited cell from the last cell of the first row to the first cell
\* after rowid of the second row.
C33_Witness ==
  /\ key = "Tab"
  /\ navigation_mode = "Edit"
  /\ IsSome(current_data)
  /\ min_col(Get(current_data)) = 1
  /\ editing_cell = Some(<<1, 1>>)
  /\ data_modified

\* The page of the current table as the data source gives it at the current offset.
FetchedPage ==
  get_table_data(source, Tables[selected_table_idx + 1], data_offset, page_size, TRUE).data

\* seq begins with the elements of head.
StartsWith(seq, head) == Len(seq) >= Len(head) /\ SubSeq(seq, 1, Len(head)) = head

\* C34: while no cell is edited and no query is set, the columns fetched from the data
\* source are the first columns of the page, in their order, and their cells are the
\* fetched ones, whatever computed columns were defined and applied.
C34_SourceColumnsKept ==
  (app = "running" /\ IsSome(current_data) /\ ~IsSome(current_query))
    => /\ StartsWith(Page.columns, FetchedPage.columns)
       /\ Len(Page.rows) = Len(FetchedPage.rows)
       /\ \A i \in 1..Len(Page.rows) : StartsWith(Page.rows[i], FetchedPage.rows[i])

\* C35: whatever computed columns were defined one after the other, the same definition
\* twice among them, an Enter of Edit mode leaves the program running, and the columns
\* of the page are then the columns of the data source followed by one column for each
\* distinct name of a computed column.
C35_CommitWithRepeatedDefinitions ==
  [][(EditEnterKey /\ IsSome(current_data) /\ IsSome(editing_cell))
       => /\ app' = "running"
          /\ IsSome(current_data')
          /\ StartsWith(Get(current_data').columns, FetchedPage.columns)
          /\ {Get(current_data').columns[j] :
                j \in (Len(FetchedPage.columns) + 1)..Len(Get(current_data').columns)}
               = {computed_columns'[k].name : k \in 1..Len(computed_columns')}
          /\ Len(Get(current_data').columns)
               = Len(FetchedPage.columns)
                 + Cardinality({computed_columns'[k].name : k \in 1..Len(computed_columns')})]_vars

\* C36: an Up key of Data mode pressed when data_offset + selected_row_idx > 0 that
\* leaves the program running moves the cursor to the row before: the position
\* data_offset + selected_row_idx in the result set decreases by exactly 1.
C36_UpMovesOneRowBack ==
  [][(DataUpKey /\ data_offset + selected_row_idx > 0 /\ app' = "running")
       => data_offset' + selected_row_idx' = data_offset + selected_row_idx - 1]_vars

\* C37: after every key event that loaded the page from the data source, which drops
\* the edits and new rows the page before held, data_modified is false.
C37_ReloadClearsModified ==
  (app = "running" /\ Did(io, "load")) => ~data_modified

\* C38: after every key event that leaves the program running, a cell is edited
\* exactly when the mode is Edit, and the edited cell is then the cell under the cursor.
C38_EditingCellIsCursorInEdit ==
  app = "running"
    => /\ IsSome(editing_cell) <=> navigation_mode = "Edit"
       /\ IsSome(editing_cell) => editing_cell = Some(<<selected_row_idx, selected_col_idx>>)

\* A cell of the second row is edited after the Down key of Edit mode moved the edited
\* cell there from the first row.
C38_Witness ==
  /\ app = "running"
  /\ key = "Down"
  /\ navigation_mode = "Edit"
  /\ selected_row_idx = 1
  /\ editing_cell = Some(<<1, selected_col_idx>>)

\* handle_key_event on an Esc key event, and run_app's load after it: the help
\* screen is closed when it is open, else the Esc arm of the mode runs; Table and
\* Data have no Esc arm.
EscEvent(s) ==
  LET handled ==
        IF s.show_help THEN [s EXCEPT !.show_help = FALSE]
        ELSE CASE s.navigation_mode = "Query" -> QueryEsc(s)
               [] s.navigation_mode = "Edit" -> EditEsc(s)
               [] s.navigation_mode = "DetailedView" -> DetailEsc(s)
               [] s.navigation_mode = "ErrorDisplay" -> ErrorEsc(s)
               [] s.navigation_mode = "ComputedColumn" -> ComputedEsc(s)
               [] OTHER -> s
  IN  AfterKey(handled, AllOk)

\* The controller runs in Data mode.
InData(s) == s.ctl = "run" /\ s.navigation_mode = "Data"

\* C39: in every running state with the help screen closed and a mode other than
\* Table, the mode is Data, or one Esc key event brings it to Data, or two
\* consecutive Esc key events do; the mode an error remembers is never ErrorDisplay.
C39_TwoEscsReachData ==
  (app = "running" /\ ~show_help /\ navigation_mode # "Table")
    => /\ \/ InData(S)
          \/ InData(EscEvent(BeforeKey(S, "Esc")))
          \/ /\ EscEvent(BeforeKey(S, "Esc")).ctl = "run"
             /\ InData(EscEvent(BeforeKey(EscEvent(BeforeKey(S, "Esc")), "Esc")))
       /\ navigation_mode = "ErrorDisplay" => previous_navigation_mode # "ErrorDisplay"

\* Two Esc key events were needed and pressed: the error of a failed copy was raised
\* in DetailedView, the first Esc went back there and the second one to Data.
C39_Witness ==
  /\ app = "running"
  /\ key = "Esc"
  /\ ~show_help
  /\ navigation_mode = "Data"
  /\ previous_navigation_mode = "DetailedView"
  /\ error_message = None
  /\ detailed_view_row = None

\* C40: the records of different source files are independent: for any two distinct
\* file paths, a save of computed columns for the one leaves the record that is read
\* for the other, its fingerprint and the list of every table, as it was.
C40_RecordsOfPathsIndependent ==
  [][\A file_path \in Paths, other \in Paths :
       (file_path # other /\ SaveFor(file_path))
         => load_file_data(p_fresh'.dir, other) = load_file_data(p_fresh.dir, other)]_vars

====
